---- MODULE Spec2Model ----
(***************************************************************************)
(* Fish Fry Finder: the event filter (EventListWithFilters), the geo       *)
(* helpers it uses (lib/geo.ts) and order placement (placeOrder).          *)
(*                                                                         *)
(* Conventions.  A JavaScript string that the code inspects character by   *)
(* character is a sequence of one-character strings; a string the code     *)
(* only compares or displays is a TLA+ string.  A nullable value is a set  *)
(* with at most one element: NULL is the empty set, Some(x) is {x}.        *)
(* Numbers are integers: coordinates in hundredths of a degree, angles and *)
(* trigonometric values in 1/FScale, distances in hundredths of a mile.    *)
(***************************************************************************)
EXTENDS Integers, Sequences, FiniteSets, TLC

\* bags (multisets) as functions from their elements to positive counts
EmptyBag == [x \in {} |-> 0]
BagAdd(bag, x) ==
  [y \in DOMAIN bag \cup {x} |-> IF y = x THEN (IF x \in DOMAIN bag THEN bag[x] + 1 ELSE 1) ELSE bag[y]]
BagRemove(bag, x) ==
  IF bag[x] > 1 THEN [bag EXCEPT ![x] = @ - 1]
  ELSE [y \in DOMAIN bag \ {x} |-> bag[y]]
RECURSIVE BagSize(_)
BagSize(bag) ==
  IF DOMAIN bag = {} THEN 0
  ELSE LET x == CHOOSE y \in DOMAIN bag : TRUE IN
       bag[x] + BagSize([y \in DOMAIN bag \ {x} |-> bag[y]])

NULL == {}
Some(x) == {x}
The(m) == CHOOSE x \in m : TRUE

(***************************************************************************)
(* Bounds of the model.                                                    *)
(***************************************************************************)
MaxEvents == 3
MaxInFlight == 2
MaxQty == 2
MaxOrders == 2
MaxUpdates == 2
MaxNotifications == 2
MaxMenuIds == 2
MaxMenuRequests == 2
MaxEventIds == 1

(***************************************************************************)
(* Characters and JavaScript string primitives.                            *)
(***************************************************************************)
UpperLetters == <<"A","B","C","D","E","F","G","H","I","J","K","L","M",
                  "N","O","P","Q","R","S","T","U","V","W","X","Y","Z">>
LowerLetters == <<"a","b","c","d","e","f","g","h","i","j","k","l","m",
                  "n","o","p","q","r","s","t","u","v","w","x","y","z">>
Digits == <<"0","1","2","3","4","5","6","7","8","9">>

Range(f) == {f[i] : i \in DOMAIN f}

IndexIn(seq, c) == CHOOSE i \in DOMAIN seq : seq[i] = c

SpaceChars == {" ", "\t", "\n"}
DigitChars == Range(Digits)
UpperChars == Range(UpperLetters)
WordChars == Range(UpperLetters) \cup Range(LowerLetters) \cup Range(Digits) \cup {"_"}

\* \s of a regular expression, and what String.prototype.trim strips
IsSpace(c) == c \in SpaceChars
\* \d of a regular expression
IsDigit(c) == c \in DigitChars
\* \w of a regular expression: [A-Za-z0-9_]
IsWordChar(c) == c \in WordChars

toLowerCaseChar(c) == IF c \in UpperChars THEN LowerLetters[IndexIn(UpperLetters, c)] ELSE c
toLowerCase(s) == [i \in DOMAIN s |-> toLowerCaseChar(s[i])]

RECURSIVE trimStart(_)
trimStart(s) == IF s # <<>> /\ IsSpace(Head(s)) THEN trimStart(Tail(s)) ELSE s
RECURSIVE trimEnd(_)
trimEnd(s) == IF s # <<>> /\ IsSpace(s[Len(s)]) THEN trimEnd(SubSeq(s, 1, Len(s) - 1)) ELSE s
trim(s) == trimEnd(trimStart(s))

\* s.replace(/\D/g, "")
RECURSIVE stripNonDigits(_)
stripNonDigits(s) ==
  IF s = <<>> THEN <<>>
  ELSE IF IsDigit(Head(s)) THEN <<Head(s)>> \o stripNonDigits(Tail(s))
  ELSE stripNonDigits(Tail(s))

\* s.slice(0, n) for n >= 0
sliceTo(s, n) == SubSeq(s, 1, IF n < Len(s) THEN n ELSE Len(s))
\* s.slice(n) for n >= 0
sliceFrom(s, n) == SubSeq(s, n + 1, Len(s))

\* s.indexOf(c) for a one-character c: zero-based, -1 when absent
indexOf(s, c) ==
  IF \E i \in DOMAIN s : s[i] = c
  THEN (CHOOSE i \in DOMAIN s : s[i] = c /\ \A j \in 1..(i - 1) : s[j] # c) - 1
  ELSE -1

\* a.includes(b)
includes(a, b) ==
  \E i \in 1..(Len(a) - Len(b) + 1) : SubSeq(a, i, i + Len(b) - 1) = b

\* s.replace(/\s+/g, " ")
RECURSIVE collapseSpaces(_)
collapseSpaces(s) ==
  IF s = <<>> THEN <<>>
  ELSE IF IsSpace(Head(s))
       THEN <<" ">> \o collapseSpaces(trimStart(s))
       ELSE <<Head(s)>> \o collapseSpaces(Tail(s))

(***************************************************************************)
(* lib/geo.ts: city-name normalisation and fuzzy matching.                 *)
(***************************************************************************)
\* \b of a regular expression at the gap before s[i] (i in 1..Len(s)+1):
\* exactly one of s[i-1], s[i] is a word character
WordBoundary(s, i) ==
  LET before == i - 1 >= 1 /\ i - 1 <= Len(s) /\ IsWordChar(s[i - 1])
      after  == i >= 1 /\ i <= Len(s) /\ IsWordChar(s[i])
  IN before # after

\* Length of the match of /\b<abbr>\.?\b/ starting at s[i], 0 when there is none.
\* The optional period is tried first (greedy) and given up when no word boundary
\* follows it.
AbbrevMatchLen(s, i, abbr) ==
  LET k == Len(abbr) IN
  IF ~(WordBoundary(s, i) /\ i + k - 1 <= Len(s) /\ SubSeq(s, i, i + k - 1) = abbr)
  THEN 0
  ELSE IF i + k <= Len(s) /\ s[i + k] = "." /\ WordBoundary(s, i + k + 1)
       THEN k + 1
       ELSE IF WordBoundary(s, i + k) THEN k ELSE 0

\* s.replace(/\b<abbr>\.?\b/g, full), scanning from s[i]
RECURSIVE ReplaceAbbrevFrom(_, _, _, _)
ReplaceAbbrevFrom(s, i, abbr, full) ==
  IF i > Len(s) THEN <<>>
  ELSE LET n == AbbrevMatchLen(s, i, abbr) IN
       IF n > 0
       THEN full \o ReplaceAbbrevFrom(s, i + n, abbr, full)
       ELSE <<s[i]>> \o ReplaceAbbrevFrom(s, i + 1, abbr, full)

ReplaceAbbrev(s, abbr, full) == ReplaceAbbrevFrom(s, 1, abbr, full)

\* the replacements of normalizeCityName, in the order the loop applies them
replacements ==
  << << <<"s","t">>, <<"s","a","i","n","t">> >>,
     << <<"f","t">>, <<"f","o","r","t">> >>,
     << <<"m","t">>, <<"m","o","u","n","t">> >>,
     << <<"n">>,     <<"n","o","r","t","h">> >>,
     << <<"s">>,     <<"s","o","u","t","h">> >>,
     << <<"e">>,     <<"e","a","s","t">> >>,
     << <<"w">>,     <<"w","e","s","t">> >> >>

RECURSIVE ApplyReplacements(_, _)
ApplyReplacements(s, k) ==
  IF k > Len(replacements) THEN s
  ELSE ApplyReplacements(ReplaceAbbrev(s, replacements[k][1], replacements[k][2]), k + 1)

normalizeCityName(cityName) ==
  IF cityName = <<>> THEN <<>>
  ELSE trim(collapseSpaces(ApplyReplacements(toLowerCase(trim(cityName)), 1)))

\* citiesMatch testing na.includes(nb) alone
citiesMatch_OneWay(a, b) ==
  LET na == normalizeCityName(a)
      nb == normalizeCityName(b)
  IN IF na = <<>> \/ nb = <<>> THEN FALSE
     ELSE includes(na, nb)

citiesMatch(a, b) ==
  LET na == normalizeCityName(a)
      nb == normalizeCityName(b)
  IN IF na = <<>> \/ nb = <<>> THEN FALSE
     ELSE includes(na, nb) \/ includes(nb, na)

(***************************************************************************)
(* lib/geo.ts: haversineMiles, in fixed-point arithmetic.  Division rounds *)
(* toward zero, so that like IEEE arithmetic it commutes with negation.    *)
(***************************************************************************)
FScale == 10 * 1000
PiScaled == 31416
EarthRadiusMiles == 3959

FDiv(a, b) == IF a >= 0 THEN a \div b ELSE -((-a) \div b)
FMul(a, b) == FDiv(a * b, FScale)

\* degrees (in hundredths) to radians (in 1/FScale): (x * Math.PI) / 180
ToRadians(cdeg) == FDiv(cdeg * PiScaled, 180 * 100)

\* Math.sin and Math.cos by their Taylor series in Horner form, |x| <= pi
MathSin(x) ==
  LET x2 == FMul(x, x)
      t5 == FScale - FDiv(x2, 110)
      t4 == FScale - FDiv(FMul(x2, t5), 72)
      t3 == FScale - FDiv(FMul(x2, t4), 42)
      t2 == FScale - FDiv(FMul(x2, t3), 20)
      t1 == FScale - FDiv(FMul(x2, t2), 6)
  IN FMul(x, t1)

MathCos(x) ==
  LET x2 == FMul(x, x)
      t5 == FScale - FDiv(x2, 90)
      t4 == FScale - FDiv(FMul(x2, t5), 56)
      t3 == FScale - FDiv(FMul(x2, t4), 30)
      t2 == FScale - FDiv(FMul(x2, t3), 12)
  IN FScale - FDiv(FMul(x2, t2), 2)

\* floor of the square root of n >= 0, by bisection on lo..hi
RECURSIVE SqrtBetween(_, _, _)
SqrtBetween(n, lo, hi) ==
  IF lo >= hi THEN lo
  ELSE LET mid == (lo + hi + 1) \div 2 IN
       IF mid * mid <= n THEN SqrtBetween(n, mid, hi) ELSE SqrtBetween(n, lo, mid - 1)

\* Math.sqrt of a value in 1/FScale^2, result in 1/FScale
MathSqrt(n2) == SqrtBetween(n2, 0, 2 * FScale)

\* Math.atan of t in [0, 1]: one halving of the angle, then the series
ArcTanUnit(t) ==
  LET h  == FDiv(t * FScale, FScale + MathSqrt(FScale * FScale + t * t))
      h2 == FMul(h, h)
      s4 == FScale - FDiv(h2 * 7, 9)
      s3 == FScale - FDiv(FMul(h2, s4) * 5, 7)
      s2 == FScale - FDiv(FMul(h2, s3) * 3, 5)
      s1 == FScale - FDiv(FMul(h2, s2), 3)
  IN 2 * FMul(h, s1)

\* Math.atan2(y, x) for y >= 0 and x >= 0
MathAtan2(y, x) ==
  IF y = 0 THEN 0
  ELSE IF x = 0 THEN FDiv(PiScaled, 2)
  ELSE IF y <= x THEN ArcTanUnit(FDiv(y * FScale, x))
  ELSE FDiv(PiScaled, 2) - ArcTanUnit(FDiv(x * FScale, y))

\* haversineMiles taking the cosine of the first latitude for both points
haversineMiles_OneLatitude(lat1, lng1, lat2, lng2) ==
  LET dLat == ToRadians(lat2 - lat1)
      dLng == ToRadians(lng2 - lng1)
      sLat == MathSin(FDiv(dLat, 2))
      sLng == MathSin(FDiv(dLng, 2))
      cc   == FMul(MathCos(ToRadians(lat1)), MathCos(ToRadians(lat1)))
      sq   == sLng * sLng
      a    == sLat * sLat + cc * (sq \div FScale) + FDiv(cc * (sq % FScale), FScale)
      c    == 2 * MathAtan2(MathSqrt(a), MathSqrt(FScale * FScale - a))
  IN FDiv(EarthRadiusMiles * c, 100)

\* distance in hundredths of a mile between two points given in hundredths of a
\* degree; a is kept in 1/FScale^2
haversineMiles(lat1, lng1, lat2, lng2) ==
  LET dLat == ToRadians(lat2 - lat1)
      dLng == ToRadians(lng2 - lng1)
      sLat == MathSin(FDiv(dLat, 2))
      sLng == MathSin(FDiv(dLng, 2))
      cc   == FMul(MathCos(ToRadians(lat1)), MathCos(ToRadians(lat2)))
      sq   == sLng * sLng
      a    == sLat * sLat + cc * (sq \div FScale) + FDiv(cc * (sq % FScale), FScale)
      c    == 2 * MathAtan2(MathSqrt(a), MathSqrt(FScale * FScale - a))
  IN FDiv(EarthRadiusMiles * c, 100)

(***************************************************************************)
(* EventListWithFilters: the state of the component, the in-flight         *)
(* geocode lookups, and placeOrder's state.                                *)
(***************************************************************************)
VARIABLES
  events,                   \* the events prop
  cityQuery, zipQuery,      \* the two origin inputs
  dateFilter, withinMiles,  \* the two selects
  originCoords, geoLoading, geoError,
  timer,                    \* the pending debounce timeout: NULL or the closure it will run
  inflight,                 \* the lookups that calls of resolveOrigin are awaiting: a bag
  filteredAndSortedEvents, distances,   \* what the last render computed
  rendered,                 \* whether the component has rendered
  orders, order_items,      \* the two tables placeOrder writes
  confirmations,            \* the calls of sendOrderConfirmation
  call,                     \* the running call of placeOrder: NULL or its state
  event,                    \* the event prop of OrderForm
  menuItems,                \* the menuItems prop of OrderForm
  name, email, orderType, quantities, submitting, submitError, confirmation,
  pageOrders,               \* AdminOrdersPage: the orders state, as loaded and then updated
  updatingId,
  statusCalls,              \* the calls of setStatus that are at an await: a bag
  notifications,            \* the calls of sendOrderReady
  consoleErrors,            \* how many "Order update error:" lines setStatus has logged
  menu_items, event_rows,   \* the menu_items table and the events table
  menuIdsIssued, eventIdsIssued,   \* how many ids the two tables have generated
  menuEvents,               \* AdminMenuPage: the events state, each with its menu_items
  modalOpen, editingItem, addForEventId, saving, deleteConfirmId,
  copySourceEventId, copyTargetEventId, copyingMenu, copyMenuMessage, copyMenuError,
  menuCall,                 \* the request an AdminMenuPage handler awaits: NULL or its state
  menuRequests,             \* how many requests the handlers have sent
  locationEvents,           \* AdminLocationPage: the events state
  duplicateSourceEvent, duplicateEventDate, duplicatingEvent,
  duplicateEventMessage, duplicateEventError,
  duplicateCall,            \* the running handleDuplicateEventSubmit: NULL or its state
  nameA, nameB,             \* lib/geo.ts: two city names, as callers pass them
  normA, normB,             \* normalizeCityName of each: NULL until called
  matchAB, matchBA,         \* citiesMatch in both argument orders: NULL until called
  pointP, pointQ,           \* two points, in hundredths of a degree
  milesPQ, milesQP, milesPP,   \* haversineMiles of them: NULL until called
  suggestCall,              \* the last call of fetchCitySuggestions that fetched: NULL or its state
  suggestResult,            \* what the last fetchCitySuggestions returned: NULL or the list
  signupState, signupCity,  \* AdminDashboard signup form: the state and city inputs
  citySuggestions, showCitySuggestions,
  suggestionsQuery,         \* the inputs whose lookup gave citySuggestions: NULL for none
  suggestTimer,             \* the pending 300 ms timeout of the autocomplete effect
  suggestFetches            \* the calls of fetchCitySuggestions the effect closures await

filterVars == <<events, cityQuery, zipQuery, dateFilter, withinMiles, originCoords,
                geoLoading, geoError, timer, inflight,
                filteredAndSortedEvents, distances, rendered>>

orderVars == <<orders, order_items, confirmations, call, event, menuItems,
               name, email, orderType, quantities, submitting, submitError, confirmation>>

adminVars == <<pageOrders, updatingId, statusCalls, notifications, consoleErrors>>

tableVars == <<menu_items, event_rows, menuIdsIssued, eventIdsIssued>>

menuPageVars == <<menuEvents, modalOpen, editingItem, addForEventId, saving, deleteConfirmId,
                  copySourceEventId, copyTargetEventId, copyingMenu, copyMenuMessage,
                  copyMenuError, menuCall, menuRequests>>

locationPageVars == <<locationEvents, duplicateSourceEvent, duplicateEventDate,
                      duplicatingEvent, duplicateEventMessage, duplicateEventError,
                      duplicateCall>>

menuVars == <<tableVars, menuPageVars, locationPageVars>>

cityVars == <<nameA, nameB, normA, normB, matchAB, matchBA>>

pointVars == <<pointP, pointQ, milesPQ, milesQP, milesPP>>

suggestVars == <<suggestCall, suggestResult>>

signupVars == <<signupState, signupCity, citySuggestions, showCitySuggestions,
                suggestionsQuery, suggestTimer, suggestFetches>>

geoVars == <<cityVars, pointVars, suggestVars, signupVars>>

vars == <<filterVars, orderVars, adminVars, menuVars, geoVars>>

(***************************************************************************)
(* The filter-and-sort memo.                                               *)
(***************************************************************************)
\* JavaScript's Infinity and NaN, as integers outside the range of every distance
Infinity == 2 ^ 30
NaN == -(2 ^ 30)

getLocationCity(ev) ==
  LET loc == ev.location IN
  IF loc # NULL /\ The(loc).city # <<>> THEN trim(The(loc).city) ELSE <<>>

getLocationState(ev) ==
  LET loc == ev.location IN
  IF loc # NULL /\ The(loc).state # <<>> THEN trim(The(loc).state) ELSE <<>>

getLocationCoords(ev) ==
  LET loc == ev.location IN
  IF loc = NULL THEN NULL
  ELSE IF The(loc).lat = NULL \/ The(loc).lng = NULL THEN NULL
  ELSE Some([lat |-> The(The(loc).lat), lng |-> The(The(loc).lng)])

\* parseInt(s, 10): optional leading white space, then the longest run of digits
RECURSIVE DigitsValue(_, _)
DigitsValue(s, acc) ==
  IF s = <<>> \/ ~IsDigit(Head(s)) THEN acc
  ELSE DigitsValue(Tail(s), 10 * acc + (IndexIn(Digits, Head(s)) - 1))

parseInt(s) ==
  LET t == trimStart(s) IN
  IF t = <<>> \/ ~IsDigit(Head(t)) THEN NaN ELSE DigitsValue(t, 0)

\* DateFiltered applied after the distances: the memo's first step filters nothing
DateFiltered_Skipped(evs, date) == evs

\* list.filter((e) => e.event_date === dateFilter), when a date filter is set
DateFiltered(evs, date) ==
  IF date # "" THEN SelectSeq(evs, LAMBDA e : e.event_date = date) ELSE evs

\* EventDistance with an event without coordinates recorded at distance 0
EventDistance_NoCoordsZero(origin, ev) ==
  LET loc == ev.location IN
  IF loc # NULL /\ The(loc).lat # NULL /\ The(loc).lng # NULL
  THEN haversineMiles(origin.lat, origin.lng, The(The(loc).lat), The(The(loc).lng))
  ELSE 0

\* the distance recorded for one event: in hundredths of a mile, or Infinity
EventDistance(origin, ev) ==
  LET coords == getLocationCoords(ev) IN
  IF coords # NULL
  THEN haversineMiles(origin.lat, origin.lng, The(coords).lat, The(coords).lng)
  ELSE Infinity

\* distMap after the loop: keyed by event id, a later event of the same id overwrites
ComputeDistMap(list, origin) ==
  IF origin = NULL THEN [id \in {} |-> 0]
  ELSE [id \in {list[i].id : i \in DOMAIN list} |->
          LET last == CHOOSE i \in DOMAIN list :
                        list[i].id = id /\ \A j \in DOMAIN list : list[j].id = id => j <= i
          IN EventDistance(The(origin), list[last])]

\* distMap.get(id) ?? Infinity
DistGet(distMap, id) == IF id \in DOMAIN distMap THEN distMap[id] ELSE Infinity

\* the comparator (a, b) => da - db as Array.prototype.sort reads it: its sign,
\* with NaN (Infinity - Infinity) read as +0
SortCompare(da, db) ==
  IF da = Infinity /\ db = Infinity THEN 0
  ELSE IF da = Infinity THEN 1
  ELSE IF db = Infinity THEN -1
  ELSE IF da < db THEN -1 ELSE IF da > db THEN 1 ELSE 0

\* InsertSorted with x going before the first element it is not greater than
RECURSIVE InsertSorted_Unstable(_, _, _)
InsertSorted_Unstable(sorted, x, distMap) ==
  IF sorted = <<>> THEN <<x>>
  ELSE IF (IF DistGet(distMap, x.id) <= DistGet(distMap, Head(sorted).id) THEN -1 ELSE 1) < 0
       THEN <<x>> \o sorted
       ELSE <<Head(sorted)>> \o InsertSorted_Unstable(Tail(sorted), x, distMap)

\* Array.prototype.sort is stable: x goes before the first element it is less than
RECURSIVE InsertSorted(_, _, _)
InsertSorted(sorted, x, distMap) ==
  IF sorted = <<>> THEN <<x>>
  ELSE IF SortCompare(DistGet(distMap, x.id), DistGet(distMap, Head(sorted).id)) < 0
       THEN <<x>> \o sorted
       ELSE <<Head(sorted)>> \o InsertSorted(Tail(sorted), x, distMap)

RECURSIVE SortByDistance(_, _)
SortByDistance(list, distMap) ==
  IF list = <<>> THEN <<>>
  ELSE InsertSorted(SortByDistance(SubSeq(list, 1, Len(list) - 1), distMap),
                    list[Len(list)], distMap)

\* if (origin) list = [...list].sort(...)
SortedWhenOrigin(list, distMap, origin) ==
  IF origin # NULL THEN SortByDistance(list, distMap) ELSE list

\* withinMiles ? parseInt(withinMiles, 10) : null
WithinMilesNum(miles) == IF miles # <<>> THEN Some(parseInt(miles)) ELSE NULL

\* RadiusFiltered without the test of origin
RadiusFiltered_NoOriginTest(list, distMap, origin, withinMilesNum) ==
  IF withinMilesNum # NULL /\ The(withinMilesNum) # NaN /\ The(withinMilesNum) > 0
  THEN SelectSeq(list, LAMBDA d : DistGet(distMap, d.id) <= The(withinMilesNum) * 100)
  ELSE list

\* if (origin && withinMilesNum != null && withinMilesNum > 0)
\*   list = list.filter((d) => (distMap.get(d.id) ?? Infinity) <= withinMilesNum)
\* distances being in hundredths of a mile
RadiusFiltered(list, distMap, origin, withinMilesNum) ==
  IF origin # NULL /\ withinMilesNum # NULL
     /\ The(withinMilesNum) # NaN /\ The(withinMilesNum) > 0
  THEN SelectSeq(list, LAMBDA d : DistGet(distMap, d.id) <= The(withinMilesNum) * 100)
  ELSE list

\* the useMemo body: [list, distances]
Memo(evs, date, origin, miles) ==
  LET list1 == DateFiltered(evs, date)
      distMap == ComputeDistMap(list1, origin)
      list2 == SortedWhenOrigin(list1, distMap, origin)
      list3 == RadiusFiltered(list2, distMap, origin, WithinMilesNum(miles))
  IN [list |-> list3, distances |-> distMap]

\* every state update re-renders: the memo is recomputed from the new state
Render ==
  \E memo \in {Memo(events', dateFilter', originCoords', withinMiles')} :
  /\ filteredAndSortedEvents' = memo.list
  /\ distances' = memo.distances
  /\ rendered' = TRUE

WITHIN_MILES_OPTIONS == {<<>>, <<"1","0">>, <<"2","5">>, <<"5","0">>, <<"1","0","0">>}

(***************************************************************************)
(* The events and origins the model draws from.                            *)
(***************************************************************************)
Date1 == "2026-03-06"
Date2 == "2026-03-13"

SaintLouis == <<"S","a","i","n","t"," ","L","o","u","i","s">>
Troy == <<"T","r","o","y">>
Chicago == <<"C","h","i","c","a","g","o">>
MO == <<"M","O">>
IL == <<"I","L">>

Loc(city, state, lat, lng) == Some([city |-> city, state |-> state, lat |-> lat, lng |-> lng])

EventPool ==
  { [id |-> "e1", event_date |-> Date1, location |-> Loc(SaintLouis, MO, Some(3870), Some(-9020))],
    [id |-> "e2", event_date |-> Date2, location |-> Loc(SaintLouis, MO, Some(3870), Some(-9020))],
    [id |-> "e3", event_date |-> Date1, location |-> Loc(Troy, <<>>, Some(3900), Some(-9060))],
    [id |-> "e4", event_date |-> Date1, location |-> NULL],
    [id |-> "e5", event_date |-> Date2, location |-> Loc(Troy, IL, NULL, NULL)],
    [id |-> "e6", event_date |-> Date1, location |-> Loc(Chicago, IL, Some(4188), Some(-8763))] }

\* the lists of at most MaxEvents events of the pool, no event twice
EventLists ==
  UNION { { s \in [1..n -> EventPool] : \A i, j \in 1..n : i # j => s[i] # s[j] } : n \in 0..MaxEvents }

\* coordinates the postal lookup service knows
Origin1 == [lat |-> 3863, lng |-> -9020]
Origin2 == [lat |-> 3873, lng |-> -8988]

(***************************************************************************)
(* lib/geo.ts: state names, and the two coordinate lookups.                *)
(***************************************************************************)
STATE_TO_ABBR ==
  << << <<"a","l","a","b","a","m","a">>, <<"a","l">> >>,
     << <<"a","l","a","s","k","a">>, <<"a","k">> >>,
     << <<"a","r","i","z","o","n","a">>, <<"a","z">> >>,
     << <<"a","r","k","a","n","s","a","s">>, <<"a","r">> >>,
     << <<"c","a","l","i","f","o","r","n","i","a">>, <<"c","a">> >>,
     << <<"c","o","l","o","r","a","d","o">>, <<"c","o">> >>,
     << <<"c","o","n","n","e","c","t","i","c","u","t">>, <<"c","t">> >>,
     << <<"d","e","l","a","w","a","r","e">>, <<"d","e">> >>,
     << <<"f","l","o","r","i","d","a">>, <<"f","l">> >>,
     << <<"g","e","o","r","g","i","a">>, <<"g","a">> >>,
     << <<"h","a","w","a","i","i">>, <<"h","i">> >>,
     << <<"i","d","a","h","o">>, <<"i","d">> >>,
     << <<"i","l","l","i","n","o","i","s">>, <<"i","l">> >>,
     << <<"i","n","d","i","a","n","a">>, <<"i","n">> >>,
     << <<"i","o","w","a">>, <<"i","a">> >>,
     << <<"k","a","n","s","a","s">>, <<"k","s">> >>,
     << <<"k","e","n","t","u","c","k","y">>, <<"k","y">> >>,
     << <<"l","o","u","i","s","i","a","n","a">>, <<"l","a">> >>,
     << <<"m","a","i","n","e">>, <<"m","e">> >>,
     << <<"m","a","r","y","l","a","n","d">>, <<"m","d">> >>,
     << <<"m","a","s","s","a","c","h","u","s","e","t","t","s">>, <<"m","a">> >>,
     << <<"m","i","c","h","i","g","a","n">>, <<"m","i">> >>,
     << <<"m","i","n","n","e","s","o","t","a">>, <<"m","n">> >>,
     << <<"m","i","s","s","i","s","s","i","p","p","i">>, <<"m","s">> >>,
     << <<"m","i","s","s","o","u","r","i">>, <<"m","o">> >>,
     << <<"m","o","n","t","a","n","a">>, <<"m","t">> >>,
     << <<"n","e","b","r","a","s","k","a">>, <<"n","e">> >>,
     << <<"n","e","v","a","d","a">>, <<"n","v">> >>,
     << <<"n","e","w"," ","h","a","m","p","s","h","i","r","e">>, <<"n","h">> >>,
     << <<"n","e","w"," ","j","e","r","s","e","y">>, <<"n","j">> >>,
     << <<"n","e","w"," ","m","e","x","i","c","o">>, <<"n","m">> >>,
     << <<"n","e","w"," ","y","o","r","k">>, <<"n","y">> >>,
     << <<"n","o","r","t","h"," ","c","a","r","o","l","i","n","a">>, <<"n","c">> >>,
     << <<"n","o","r","t","h"," ","d","a","k","o","t","a">>, <<"n","d">> >>,
     << <<"o","h","i","o">>, <<"o","h">> >>,
     << <<"o","k","l","a","h","o","m","a">>, <<"o","k">> >>,
     << <<"o","r","e","g","o","n">>, <<"o","r">> >>,
     << <<"p","e","n","n","s","y","l","v","a","n","i","a">>, <<"p","a">> >>,
     << <<"r","h","o","d","e"," ","i","s","l","a","n","d">>, <<"r","i">> >>,
     << <<"s","o","u","t","h"," ","c","a","r","o","l","i","n","a">>, <<"s","c">> >>,
     << <<"s","o","u","t","h"," ","d","a","k","o","t","a">>, <<"s","d">> >>,
     << <<"t","e","n","n","e","s","s","e","e">>, <<"t","n">> >>,
     << <<"t","e","x","a","s">>, <<"t","x">> >>,
     << <<"u","t","a","h">>, <<"u","t">> >>,
     << <<"v","e","r","m","o","n","t">>, <<"v","t">> >>,
     << <<"v","i","r","g","i","n","i","a">>, <<"v","a">> >>,
     << <<"w","a","s","h","i","n","g","t","o","n">>, <<"w","a">> >>,
     << <<"w","e","s","t"," ","v","i","r","g","i","n","i","a">>, <<"w","v">> >>,
     << <<"w","i","s","c","o","n","s","i","n">>, <<"w","i">> >>,
     << <<"w","y","o","m","i","n","g">>, <<"w","y">> >>,
     << <<"d","i","s","t","r","i","c","t"," ","o","f"," ","c","o","l","u","m","b","i","a">>, <<"d","c">> >>,
     << <<"w","a","s","h","i","n","g","t","o","n"," ","d","c">>, <<"d","c">> >> >>

getStateAbbr(state) ==
  IF state = <<>> THEN <<>>
  ELSE LET st == trim(state) IN
       IF Len(st) = 2 THEN toLowerCase(st)
       ELSE IF \E k \in DOMAIN STATE_TO_ABBR : STATE_TO_ABBR[k][1] = toLowerCase(st)
            THEN STATE_TO_ABBR[CHOOSE k \in DOMAIN STATE_TO_ABBR : STATE_TO_ABBR[k][1] = toLowerCase(st)][2]
            ELSE toLowerCase(st)

\* What api.zippopotam.us answers when it answers: the first place of a postal
\* code, and of a city of a state; NULL for a place it does not know.
ZippopotamZip(zip) ==
  IF zip = <<"6","3","1","0","1">> THEN Some(Origin1) ELSE NULL

ZippopotamCity(stateAbbr, city) ==
  IF stateAbbr = <<"i","l">> /\ toLowerCase(city) = <<"t","r","o","y">> THEN Some(Origin2) ELSE NULL

\* fetchZipCoords: whether it fetches at all, and what it returns for a response
\* (ok: the service answered; otherwise a network error or a non-success status)
fetchZipCoordsFetches(zip) == Len(sliceTo(stripNonDigits(zip), 5)) >= 5
fetchZipCoords(zip, ok) ==
  LET cleaned == sliceTo(stripNonDigits(zip), 5) IN
  IF Len(cleaned) < 5 THEN NULL
  ELSE IF ~ok THEN NULL
  ELSE ZippopotamZip(cleaned)

\* fetchCityCoords, likewise
fetchCityCoordsFetches(city, state) == trim(city) # <<>> /\ getStateAbbr(state) # <<>>
fetchCityCoords(city, state, ok) ==
  IF trim(city) = <<>> \/ getStateAbbr(state) = <<>> THEN NULL
  ELSE IF ~ok THEN NULL
  ELSE ZippopotamCity(getStateAbbr(state), trim(city))


(***************************************************************************)
(* OrderForm and placeOrder: the menu, the derived values of a render and  *)
(* the values placeOrder computes. Prices are in cents. The phone, notes   *)
(* and pickup-time fields are passed through to the row and left out.      *)
(***************************************************************************)
Coalesce(m, d) == IF m = NULL THEN d ELSE The(m)

\* parseFloat of a decimal string, in cents
parseFloat(s) ==
  LET t == trimStart(s)
      dot == indexOf(t, ".")
      whole == IF dot = -1 THEN t ELSE sliceTo(t, dot)
      frac == IF dot = -1 THEN <<>> ELSE sliceFrom(t, dot + 1)
      cents == sliceTo(frac \o <<"0", "0">>, 2)
  IN IF whole = <<>> \/ ~IsDigit(Head(whole)) THEN NaN
     ELSE 100 * DigitsValue(whole, 0)
          + (IF IsDigit(cents[1]) THEN 10 * DigitsValue(<<cents[1]>>, 0)
                                       + DigitsValue(<<cents[2]>>, 0)
             ELSE 0)

\* rows of the menu_items table; a numeric price reaches the client as a
\* number or as a decimal string
NoTags == <<>>
FishPlate ==
  [id |-> "m1", event_id |-> "ev1", name |-> "Fish Plate", description |-> NULL,
   price |-> [string |-> NULL, number |-> Some(1200)], category |-> "fish",
   available |-> TRUE, blocked |-> NULL, prep_time_minutes |-> Some(15),
   dietary_tags |-> NoTags, dine_in_only |-> NULL, pickup_only |-> Some(FALSE)]
Pie ==
  [id |-> "m2", event_id |-> "ev1", name |-> "Pie", description |-> Some("Apple"),
   price |-> [string |-> Some(<<"3", ".", "5", "0">>), number |-> NULL],
   category |-> "desserts",
   available |-> TRUE, blocked |-> Some(FALSE), prep_time_minutes |-> NULL,
   dietary_tags |-> <<"Vegetarian">>, dine_in_only |-> Some(FALSE), pickup_only |-> Some(TRUE)]
Slaw ==
  [id |-> "m3", event_id |-> "ev1", name |-> "Slaw", description |-> NULL,
   price |-> [string |-> NULL, number |-> Some(250)], category |-> "sides",
   available |-> FALSE, blocked |-> NULL, prep_time_minutes |-> Some(5),
   dietary_tags |-> <<"Vegan">>, dine_in_only |-> Some(TRUE), pickup_only |-> Some(FALSE)]
Chowder ==
  [id |-> "m4", event_id |-> "ev2", name |-> "Chowder", description |-> NULL,
   price |-> [string |-> NULL, number |-> Some(600)], category |-> "sides",
   available |-> TRUE, blocked |-> NULL, prep_time_minutes |-> Some(20),
   dietary_tags |-> NoTags, dine_in_only |-> Some(FALSE), pickup_only |-> Some(FALSE)]
Coffee ==
  [id |-> "m5", event_id |-> "ev2", name |-> "Coffee", description |-> NULL,
   price |-> [string |-> Some(<<"1", ".", "2", "5">>), number |-> NULL],
   category |-> "drinks",
   available |-> TRUE, blocked |-> NULL, prep_time_minutes |-> Some(5),
   dietary_tags |-> NoTags, dine_in_only |-> Some(TRUE), pickup_only |-> Some(FALSE)]
Tea ==
  [id |-> "m6", event_id |-> "ev2", name |-> "Tea", description |-> NULL,
   price |-> [string |-> NULL, number |-> Some(100)], category |-> "drinks",
   available |-> TRUE, blocked |-> NULL, prep_time_minutes |-> Some(0),
   dietary_tags |-> NoTags, dine_in_only |-> Some(FALSE), pickup_only |-> Some(FALSE)]
Roll ==
  [id |-> "m7", event_id |-> "ev2", name |-> "Roll", description |-> NULL,
   price |-> [string |-> NULL, number |-> Some(75)], category |-> "sides",
   available |-> TRUE, blocked |-> NULL, prep_time_minutes |-> NULL,
   dietary_tags |-> NoTags, dine_in_only |-> Some(FALSE), pickup_only |-> Some(FALSE)]
Soda ==
  [id |-> "m8", event_id |-> "ev2", name |-> "Soda", description |-> NULL,
   price |-> [string |-> NULL, number |-> Some(150)], category |-> "drinks",
   available |-> TRUE, blocked |-> Some(TRUE), prep_time_minutes |-> NULL,
   dietary_tags |-> NoTags, dine_in_only |-> Some(FALSE), pickup_only |-> Some(FALSE)]
StoredMenu == <<FishPlate, Pie, Slaw, Chowder, Coffee, Tea, Roll, Soda>>

\* the order of the texts the model uses under ORDER BY
TextOrder ==
  <<"Chowder", "Coffee", "Fish Plate", "Pie", "Roll", "Slaw", "Soda", "Tea",
    "desserts", "drinks", "fish", "other", "sides">>
TextRank(t) == CHOOSE i \in DOMAIN TextOrder : TextOrder[i] = t

\* a before b under ORDER BY category, name
MenuOrderBefore(a, b) ==
  \/ TextRank(a.category) < TextRank(b.category)
  \/ a.category = b.category /\ TextRank(a.name) < TextRank(b.name)

RECURSIVE OrderByCategoryName(_)
OrderByCategoryName(rows) ==
  IF rows = <<>> THEN <<>>
  ELSE LET rest == OrderByCategoryName(Tail(rows))
           before == SelectSeq(rest, LAMBDA r : MenuOrderBefore(r, Head(rows)))
           after == SelectSeq(rest, LAMBDA r : ~MenuOrderBefore(r, Head(rows)))
       IN before \o <<Head(rows)>> \o after

\* the order page's load of an event's menu: the columns it selects; the
\* columns it does not select are undefined on the items
getMenuItems(rows, eventId, ok) ==
  IF ~ok THEN <<>>
  ELSE LET data == OrderByCategoryName(
                     SelectSeq(rows, LAMBDA r : /\ r.event_id = eventId
                                                /\ r.available
                                                /\ r.blocked \in {NULL, Some(FALSE)}))
       IN [k \in DOMAIN data |->
             [id |-> data[k].id, name |-> data[k].name,
              description |-> data[k].description, price |-> data[k].price,
              category |-> data[k].category,
              prep_time_minutes |-> data[k].prep_time_minutes,
              dietary_tags |-> data[k].dietary_tags,
              dine_in_only |-> NULL, pickup_only |-> NULL]]

menuItemsWithNumericPrice(items) ==
  [k \in DOMAIN items |->
     [items[k] EXCEPT !.price =
        IF items[k].price.string # NULL
        THEN [string |-> NULL, number |-> Some(parseFloat(The(items[k].price.string)))]
        ELSE items[k].price]]

\* the menuItems prop of OrderForm, as OrderPage passes it
OrderPageMenu(rows, eventId, ok) == menuItemsWithNumericPrice(getMenuItems(rows, eventId, ok))
MenuIds == {menuItems[k].id : k \in DOMAIN menuItems}

\* the event prop: an event is created with any combination of the two modes
OrderEvents ==
  { [id |-> "ev1", dine_in |-> TRUE, pickup |-> TRUE],
    [id |-> "ev1", dine_in |-> FALSE, pickup |-> TRUE],
    [id |-> "ev1", dine_in |-> FALSE, pickup |-> FALSE] }

filteredMenuItems(type) ==
  SelectSeq(menuItems,
            LAMBDA item : IF type = "dine_in" THEN ~Coalesce(item.pickup_only, FALSE)
                          ELSE ~Coalesce(item.dine_in_only, FALSE))

getPrice(item) ==
  IF item.price.string # NULL THEN parseFloat(The(item.price.string))
  ELSE The(item.price.number)

lineItems(type, qtys) ==
  LET chosen == SelectSeq(filteredMenuItems(type), LAMBDA item : qtys[item.id] > 0)
  IN [k \in DOMAIN chosen |->
        [item |-> chosen[k], qty |-> qtys[chosen[k].id], unitPrice |-> getPrice(chosen[k])]]

\* a total that counts each selected item once
RECURSIVE LineTotal_IgnoresQty(_)
LineTotal_IgnoresQty(lines) ==
  IF lines = <<>> THEN 0
  ELSE Head(lines).unitPrice + LineTotal_IgnoresQty(Tail(lines))

RECURSIVE LineTotal(_)
LineTotal(lines) ==
  IF lines = <<>> THEN 0
  ELSE Head(lines).unitPrice * Head(lines).qty + LineTotal(Tail(lines))

\* an estimate that takes every prep time that is set, 0 included
estimatedWaitMinutes_CountsZero(lines) ==
  LET prepTimes == {The(lines[k].item.prep_time_minutes) :
                      k \in {j \in DOMAIN lines : lines[j].item.prep_time_minutes # NULL}}
  IN IF prepTimes = {} THEN NULL
     ELSE Some(CHOOSE m \in prepTimes : \A n \in prepTimes : n <= m)

estimatedWaitMinutes(lines) ==
  LET prepTimes == {The(lines[k].item.prep_time_minutes) :
                      k \in {j \in DOMAIN lines : /\ lines[j].item.prep_time_minutes # NULL
                                                  /\ The(lines[j].item.prep_time_minutes) > 0}}
  IN IF prepTimes = {} THEN NULL
     ELSE Some(CHOOSE m \in prepTimes : \A n \in prepTimes : n <= m)

\* the items handleSubmit hands to placeOrder
SubmittedItems(type, qtys) ==
  LET chosen == SelectSeq(filteredMenuItems(type), LAMBDA m : qtys[m.id] > 0)
  IN [k \in DOMAIN chosen |->
        [menu_item_id |-> chosen[k].id, quantity |-> qtys[chosen[k].id],
         item_name |-> chosen[k].name, item_price |-> getPrice(chosen[k])]]

NameRequired == "Please enter your name."
EmailRequired == "Please enter your email."
SomethingWentWrong == "Something went wrong. Please try again."
FailedToCreateOrder == "Failed to create order"
EmailNotConfigured == "Email not configured"
FishFry == "Fish Fry"

\* placeOrder's values
OrderRow(id, eventId, orderData) ==
  [id |-> id, event_id |-> eventId,
   customer_name |-> trim(orderData.customer_name),
   customer_email |-> IF trim(orderData.customer_email) = <<>> THEN NULL
                      ELSE Some(trim(orderData.customer_email)),
   order_type |-> orderData.order_type,
   status |-> "pending"]

orderItems_Unfiltered(items, orderId) ==
  [k \in DOMAIN items |->
     [order_id |-> orderId, menu_item_id |-> items[k].menu_item_id,
      quantity |-> items[k].quantity, item_name |-> items[k].item_name,
      item_price |-> items[k].item_price]]

orderItems(items, orderId) ==
  LET kept == SelectSeq(items, LAMBDA i : i.quantity > 0)
  IN [k \in DOMAIN kept |->
        [order_id |-> orderId, menu_item_id |-> kept[k].menu_item_id,
         quantity |-> kept[k].quantity, item_name |-> kept[k].item_name,
         item_price |-> kept[k].item_price]]

orderItemsForEmail(items) == SelectSeq(items, LAMBDA i : i.quantity > 0)

RECURSIVE EmailTotal(_)
EmailTotal(items) ==
  IF items = <<>> THEN 0
  ELSE Head(items).quantity * Head(items).item_price + EmailTotal(Tail(items))

\* sendOrderConfirmation's result: no API key, a send error, or sent
sendOrderConfirmation(outcome) ==
  IF outcome = "notConfigured" THEN [ok |-> FALSE, error |-> Some(EmailNotConfigured)]
  ELSE IF outcome # "sent" THEN [ok |-> FALSE, error |-> Some(outcome)]
  ELSE [ok |-> TRUE, error |-> NULL]

Success(order) == [success |-> TRUE, order |-> Some(order), error |-> NULL]
Failure(message) == [success |-> FALSE, order |-> NULL, error |-> Some(message)]

\* the form as mounted for an event, with nothing placed
FormInit(ev, items) ==
  /\ event = ev
  /\ menuItems = items
  /\ name = <<>> /\ email = <<>>
  /\ orderType = IF ev.dine_in THEN "dine_in" ELSE "pickup"
  /\ quantities = [id \in {items[k].id : k \in DOMAIN items} |-> 0]
  /\ submitting = FALSE /\ submitError = NULL /\ confirmation = NULL

OrderInit(ev, items) ==
  /\ orders = <<>> /\ order_items = <<>> /\ confirmations = <<>>
  /\ call = NULL
  /\ FormInit(ev, items)

OrderIdle ==
  OrderInit([id |-> "ev1", dine_in |-> TRUE, pickup |-> TRUE],
            OrderPageMenu(StoredMenu, "ev1", TRUE))

\* rows of the events table, both of location "loc1"
StoredEvent1 ==
  [id |-> "ev1", location_id |-> "loc1", event_date |-> Date1,
   start_time |-> Some("16:00"), end_time |-> Some("19:00"),
   dine_in |-> TRUE, pickup |-> TRUE, notes |-> Some("Cash only"), active |-> TRUE]
StoredEvent2 ==
  [id |-> "ev2", location_id |-> "loc1", event_date |-> Date2,
   start_time |-> NULL, end_time |-> NULL,
   dine_in |-> TRUE, pickup |-> FALSE, notes |-> NULL, active |-> TRUE]
StoredEvents == <<StoredEvent1, StoredEvent2>>

\* the two admin pages not opened
MenuPageIdle ==
  /\ menuEvents = <<>>
  /\ modalOpen = FALSE /\ editingItem = NULL /\ addForEventId = NULL
  /\ saving = FALSE /\ deleteConfirmId = NULL
  /\ copySourceEventId = NULL /\ copyTargetEventId = ""
  /\ copyingMenu = FALSE /\ copyMenuMessage = NULL /\ copyMenuError = NULL
  /\ menuCall = NULL /\ menuRequests = 0

LocationPageIdle ==
  /\ locationEvents = <<>>
  /\ duplicateSourceEvent = NULL /\ duplicateEventDate = ""
  /\ duplicatingEvent = FALSE
  /\ duplicateEventMessage = NULL /\ duplicateEventError = NULL
  /\ duplicateCall = NULL

TablesStored ==
  /\ menu_items = StoredMenu /\ event_rows = StoredEvents
  /\ menuIdsIssued = 0 /\ eventIdsIssued = 0

MenuIdle == TablesStored /\ MenuPageIdle /\ LocationPageIdle

\* lib/geo.ts not called
CitiesIdle ==
  /\ nameA = <<>> /\ nameB = <<>>
  /\ normA = NULL /\ normB = NULL /\ matchAB = NULL /\ matchBA = NULL

PointsIdle ==
  /\ pointP = [lat |-> 0, lng |-> 0] /\ pointQ = [lat |-> 0, lng |-> 0]
  /\ milesPQ = NULL /\ milesQP = NULL /\ milesPP = NULL

SuggestIdle == suggestCall = NULL /\ suggestResult = NULL

\* the signup form as mounted, both inputs empty
SignupIdle ==
  /\ signupState = <<>> /\ signupCity = <<>>
  /\ citySuggestions = <<>> /\ showCitySuggestions = FALSE /\ suggestionsQuery = NULL
  /\ suggestTimer = NULL /\ suggestFetches = {}

GeoIdle == CitiesIdle /\ PointsIdle /\ SuggestIdle /\ SignupIdle

\* the admin orders page not opened
AdminIdle ==
  /\ pageOrders = <<>> /\ updatingId = NULL
  /\ statusCalls = EmptyBag /\ notifications = <<>> /\ consoleErrors = 0

(***************************************************************************)
(* The memo as a function of its inputs.                                   *)
(***************************************************************************)
FilterIdle ==
  /\ cityQuery = <<>> /\ zipQuery = <<>>
  /\ geoLoading = FALSE /\ geoError = NULL
  /\ timer = NULL /\ inflight = EmptyBag

InitList ==
  /\ GeoIdle
  /\ events \in EventLists
  /\ dateFilter \in {"", Date1, Date2}
  /\ withinMiles \in WITHIN_MILES_OPTIONS
  /\ originCoords \in {NULL, Some(Origin1), Some(Origin2)}
  /\ FilterIdle
  /\ filteredAndSortedEvents = <<>> /\ distances = <<>> /\ rendered = FALSE
  /\ OrderIdle
  /\ AdminIdle
  /\ MenuIdle

RenderList ==
  /\ ~rendered
  /\ UNCHANGED <<events, cityQuery, zipQuery, dateFilter, withinMiles, originCoords,
                 geoLoading, geoError, timer, inflight>>
  /\ UNCHANGED <<orderVars, adminVars, menuVars, geoVars>>
  /\ Render

NextList == RenderList

SpecList == InitList /\ [][NextList]_vars

(***************************************************************************)
(* EventListWithFilters: origin resolution.                                *)
(***************************************************************************)
GeoErrorZip == "Could not find that zip code."
GeoErrorCity == "Could not find that city."
GeoErrorAddState == "Add state (e.g. Saint Louis, MO)"

\* zipQuery.trim().replace(/\D/g, "") and cityQuery.trim()
ZipTrimmed(zip) == stripNonDigits(trim(zip))
CityTrimmed(city) == trim(city)

\* the "City, ST" parse of resolveOrigin
ParsedCity(cityTrimmed) ==
  LET commaIdx == indexOf(cityTrimmed, ",") IN
  IF commaIdx > 0 THEN trim(sliceTo(cityTrimmed, commaIdx)) ELSE cityTrimmed

ParsedState(cityTrimmed) ==
  LET commaIdx == indexOf(cityTrimmed, ",") IN
  IF commaIdx > 0 THEN trim(sliceFrom(cityTrimmed, commaIdx + 1)) ELSE <<>>

\* FallbackState taking the state of any matching event that has one
FallbackState_AnyMatch(evs, city) ==
  LET withState == {i \in DOMAIN evs :
                      citiesMatch(getLocationCity(evs[i]), city) /\ getLocationState(evs[i]) # <<>>}
  IN IF withState = {} THEN <<>>
     ELSE getLocationState(evs[CHOOSE i \in withState : \A j \in withState : i <= j])

\* events.find((e) => citiesMatch(getLocationCity(e), city)), then its state or ""
FallbackState(evs, city) ==
  LET matching == {i \in DOMAIN evs : citiesMatch(getLocationCity(evs[i]), city)}
  IN IF matching = {} THEN <<>>
     ELSE getLocationState(evs[CHOOSE i \in matching : \A j \in matching : i <= j])

\* the state resolveOrigin ends up with for a city query
StateFor(evs, cityTrimmed) ==
  IF ParsedState(cityTrimmed) # <<>> THEN ParsedState(cityTrimmed)
  ELSE FallbackState(evs, ParsedCity(cityTrimmed))

\* OriginBranch with the city text consulted before the postal code
OriginBranch_CityFirst(evs, zipTrimmed, cityTrimmed) ==
  IF cityTrimmed # <<>>
  THEN IF StateFor(evs, cityTrimmed) = <<>> THEN "hint" ELSE "city"
  ELSE IF Len(zipTrimmed) >= 5 THEN "zip" ELSE "clear"

\* which of its four paths resolveOrigin takes
OriginBranch(evs, zipTrimmed, cityTrimmed) ==
  IF Len(zipTrimmed) >= 5 THEN "zip"
  ELSE IF cityTrimmed # <<>>
       THEN IF StateFor(evs, cityTrimmed) = <<>> THEN "hint" ELSE "city"
       ELSE "clear"

\* a lookup a call of resolveOrigin awaits, with the inputs its closure holds
ZipRequest(closure) ==
  [kind |-> "zip", zipQuery |-> closure.zipQuery, cityQuery |-> closure.cityQuery,
   zip |-> ZipTrimmed(closure.zipQuery), city |-> <<>>, state |-> <<>>]

CityRequest(evs, closure) ==
  [kind |-> "city", zipQuery |-> closure.zipQuery, cityQuery |-> closure.cityQuery,
   zip |-> <<>>,
   city |-> ParsedCity(CityTrimmed(closure.cityQuery)),
   state |-> StateFor(evs, CityTrimmed(closure.cityQuery))]

InFlightCount == BagSize(inflight)

\* the effect on [zipQuery, cityQuery, resolveOrigin]: its cleanup clears the
\* pending timeout, then it either resets the origin or arms a new timeout
OriginEffect ==
  IF ZipTrimmed(zipQuery') = <<>> /\ CityTrimmed(cityQuery') = <<>>
  THEN /\ originCoords' = NULL
       /\ geoError' = NULL
       /\ timer' = NULL
  ELSE /\ timer' = Some([zipQuery |-> zipQuery', cityQuery |-> cityQuery'])
       /\ UNCHANGED <<originCoords, geoError>>

\* onChange of the city input
EditCity(value) ==
  /\ value # cityQuery
  /\ cityQuery' = value
  /\ UNCHANGED <<events, zipQuery, dateFilter, withinMiles, geoLoading, inflight>>
  /\ OriginEffect
  /\ UNCHANGED <<orderVars, adminVars, menuVars, geoVars>>
  /\ Render

\* onChange of the zip input
EditZip(raw) ==
  LET value == sliceTo(stripNonDigits(raw), 5) IN
  /\ value # zipQuery
  /\ zipQuery' = value
  /\ UNCHANGED <<events, cityQuery, dateFilter, withinMiles, geoLoading, inflight>>
  /\ OriginEffect
  /\ UNCHANGED <<orderVars, adminVars, menuVars, geoVars>>
  /\ Render

\* the timeout fires: resolveOrigin runs up to its await, or to its return
TimerFires ==
  /\ timer # NULL
  /\ timer' = NULL
  /\ UNCHANGED <<events, cityQuery, zipQuery, dateFilter, withinMiles>>
  /\ \E closure \in timer :
     \E branch \in {OriginBranch(events, ZipTrimmed(closure.zipQuery), CityTrimmed(closure.cityQuery))} :
        \/ /\ branch = "zip"
           /\ InFlightCount < MaxInFlight
           /\ geoLoading' = TRUE
           /\ geoError' = NULL
           /\ inflight' = BagAdd(inflight, ZipRequest(closure))
           /\ UNCHANGED originCoords
        \/ /\ branch = "hint"
           /\ originCoords' = NULL
           /\ geoError' = Some(GeoErrorAddState)
           /\ geoLoading' = FALSE
           /\ UNCHANGED inflight
        \/ /\ branch = "city"
           /\ InFlightCount < MaxInFlight
           /\ geoLoading' = TRUE
           /\ geoError' = NULL
           /\ inflight' = BagAdd(inflight, CityRequest(events, closure))
           /\ UNCHANGED originCoords
        \/ /\ branch = "clear"
           /\ originCoords' = NULL
           /\ geoError' = NULL
           /\ UNCHANGED <<geoLoading, inflight>>
  /\ UNCHANGED <<orderVars, adminVars, menuVars, geoVars>>
  /\ Render

\* a lookup settles and resolveOrigin runs from its await to its return
LookupCompletes(req, ok) ==
  /\ req \in DOMAIN inflight
  /\ inflight' = BagRemove(inflight, req)
  /\ LET coords == IF req.kind = "zip" THEN fetchZipCoords(req.zip, ok)
                   ELSE fetchCityCoords(req.city, req.state, ok)
     IN /\ originCoords' = coords
        /\ geoError' = IF coords = NULL
                       THEN Some(IF req.kind = "zip" THEN GeoErrorZip ELSE GeoErrorCity)
                       ELSE geoError
  /\ geoLoading' = FALSE
  /\ UNCHANGED <<events, cityQuery, zipQuery, dateFilter, withinMiles, timer>>
  /\ UNCHANGED <<orderVars, adminVars, menuVars, geoVars>>
  /\ Render

\* onChange of the date select, whose options are "" and the events' dates
SetDateFilter(value) ==
  /\ value \in {""} \cup {events[i].event_date : i \in DOMAIN events}
  /\ value # dateFilter
  /\ dateFilter' = value
  /\ UNCHANGED <<events, cityQuery, zipQuery, withinMiles, originCoords, geoLoading,
                 geoError, timer, inflight>>
  /\ UNCHANGED <<orderVars, adminVars, menuVars, geoVars>>
  /\ Render

\* the within-miles select is rendered only when an input is not blank
hasOrigin == trim(zipQuery) # <<>> \/ trim(cityQuery) # <<>>

SetWithinMiles(value) ==
  /\ hasOrigin
  /\ value # withinMiles
  /\ withinMiles' = value
  /\ UNCHANGED <<events, cityQuery, zipQuery, dateFilter, originCoords, geoLoading,
                 geoError, timer, inflight>>
  /\ UNCHANGED <<orderVars, adminVars, menuVars, geoVars>>
  /\ Render

\* what the user types and selects
CityInputs ==
  { <<>>,
    <<"T","r","o","y",","," ","I","L">>,
    <<"T","r","o","y">>,
    <<"L","o","u","i","s">>,
    <<"N","o","w","h","e","r","e",",">> }
ZipInputs == { <<>>, <<"6","3","1">>, <<"6","3","1","0","1","-","2">> }
MilesInputs == { <<>>, <<"1","0">>, <<"5","0">> }

OriginEvents ==
  << [id |-> "e3", event_date |-> Date1, location |-> Loc(Troy, <<>>, Some(3900), Some(-9060))],
     [id |-> "e5", event_date |-> Date2, location |-> Loc(Troy, IL, NULL, NULL)],
     [id |-> "e1", event_date |-> Date1, location |-> Loc(SaintLouis, MO, Some(3870), Some(-9020))] >>

FilterMounted ==
  /\ events = OriginEvents
  /\ dateFilter = "" /\ withinMiles = <<>> /\ originCoords = NULL
  /\ FilterIdle
  /\ filteredAndSortedEvents = events /\ distances = <<>> /\ rendered = TRUE

InitOrigin == FilterMounted /\ OrderIdle /\ AdminIdle /\ MenuIdle /\ GeoIdle

\* the user works the two origin inputs and leaves the selects alone
NextOrigin ==
  \/ \E value \in CityInputs : EditCity(value)
  \/ \E raw \in ZipInputs : EditZip(raw)
  \/ TimerFires
  \/ \E req \in DOMAIN inflight : \E ok \in BOOLEAN : LookupCompletes(req, ok)

SpecOrigin == InitOrigin /\ [][NextOrigin]_vars

\* the user works the selects too, and types fewer origins
RadiusCityInputs == { <<>>, <<"T","r","o","y",","," ","I","L">> }
RadiusZipInputs == { <<>>, <<"6","3","1","0","1","-","2">> }

NextRadius ==
  \/ \E value \in RadiusCityInputs : EditCity(value)
  \/ \E raw \in RadiusZipInputs : EditZip(raw)
  \/ TimerFires
  \/ \E req \in DOMAIN inflight : \E ok \in BOOLEAN : LookupCompletes(req, ok)
  \/ \E value \in {"", Date1, Date2} : SetDateFilter(value)
  \/ \E value \in MilesInputs : SetWithinMiles(value)

SpecRadius == InitOrigin /\ [][NextRadius]_vars

(***************************************************************************)
(* OrderForm's handlers and placeOrder, which runs from one await to the   *)
(* next: the orders insert, the order_items insert, the events select and  *)
(* the confirmation email.  One call of placeOrder runs at a time.         *)
(***************************************************************************)
DbError == "insert failed"
SendError == "send failed"
StMary == "St. Mary"

\* the form is rendered until there is a confirmation to show instead
FormShown == confirmation = NULL

SetName(value) ==
  /\ FormShown
  /\ value # name
  /\ name' = value
  /\ UNCHANGED <<orders, order_items, confirmations, call, event, menuItems,
                 email, orderType, quantities, submitting, submitError, confirmation>>
  /\ UNCHANGED <<filterVars, adminVars, menuVars, geoVars>>

SetEmail(value) ==
  /\ FormShown
  /\ value # email
  /\ email' = value
  /\ UNCHANGED <<orders, order_items, confirmations, call, event, menuItems,
                 name, orderType, quantities, submitting, submitError, confirmation>>
  /\ UNCHANGED <<filterVars, adminVars, menuVars, geoVars>>

\* SetOrderType emptying the selection when the type changes
SetOrderType_ClearsQuantities(type) ==
  /\ FormShown
  /\ IF type = "dine_in" THEN event.dine_in ELSE event.pickup
  /\ type # orderType
  /\ orderType' = type
  /\ quantities' = [id \in DOMAIN quantities |-> 0]
  /\ UNCHANGED <<orders, order_items, confirmations, call, event, menuItems,
                 name, email, submitting, submitError, confirmation>>
  /\ UNCHANGED <<filterVars, adminVars, menuVars, geoVars>>

\* a radio is rendered for each order type the event offers
SetOrderType(type) ==
  /\ FormShown
  /\ IF type = "dine_in" THEN event.dine_in ELSE event.pickup
  /\ type # orderType
  /\ orderType' = type
  /\ UNCHANGED <<orders, order_items, confirmations, call, event, menuItems,
                 name, email, quantities, submitting, submitError, confirmation>>
  /\ UNCHANGED <<filterVars, adminVars, menuVars, geoVars>>

\* the - and + buttons of a listed item
setQuantity(itemId, delta) ==
  /\ FormShown
  /\ \E k \in DOMAIN filteredMenuItems(orderType) : filteredMenuItems(orderType)[k].id = itemId
  /\ quantities[itemId] + delta <= MaxQty
  /\ quantities' = [quantities EXCEPT ![itemId] = IF @ + delta > 0 THEN @ + delta ELSE 0]
  /\ UNCHANGED <<orders, order_items, confirmations, call, event, menuItems,
                 name, email, orderType, submitting, submitError, confirmation>>
  /\ UNCHANGED <<filterVars, adminVars, menuVars, geoVars>>

NewCall(caller, eventId, orderData, items, closure) ==
  [caller |-> caller, eventId |-> eventId, orderData |-> orderData, items |-> items,
   closure |-> closure, pc |-> "insertOrder", order |-> NULL, itemsInserts |-> 0,
   locationName |-> "", emailResult |-> NULL, result |-> NULL]

\* what the continuation of handleSubmit reads from the render it was created in
SubmitClosure ==
  LET lines == lineItems(orderType, quantities) IN
  [total |-> LineTotal(lines),
   order_type |-> orderType,
   lineItems |-> [k \in DOMAIN lines |->
                    [name |-> lines[k].item.name, qty |-> lines[k].qty,
                     unitPrice |-> lines[k].unitPrice]],
   estimatedWaitMinutes |-> estimatedWaitMinutes(lines)]

NoClosure ==
  [total |-> 0, order_type |-> "", lineItems |-> <<>>, estimatedWaitMinutes |-> NULL]

\* onSubmit of the form, up to its await of placeOrder or to its early return
handleSubmit ==
  /\ FormShown
  /\ ~submitting
  /\ IF trim(name) = <<>>
     THEN /\ submitError' = Some(NameRequired)
          /\ UNCHANGED <<submitting, call>>
     ELSE IF trim(email) = <<>>
     THEN /\ submitError' = Some(EmailRequired)
          /\ UNCHANGED <<submitting, call>>
     ELSE /\ call = NULL
          /\ Len(orders) < MaxOrders
          /\ submitError' = NULL
          /\ submitting' = TRUE
          /\ call' = Some(NewCall("form", event.id,
                                  [customer_name |-> trim(name),
                                   customer_email |-> trim(email),
                                   order_type |-> orderType,
                                   estimatedWaitMinutes |-> SubmitClosure.estimatedWaitMinutes],
                                  SubmittedItems(orderType, quantities),
                                  SubmitClosure))
  /\ UNCHANGED <<orders, order_items, confirmations, event, menuItems,
                 name, email, orderType, quantities, confirmation>>
  /\ UNCHANGED <<filterVars, adminVars, menuVars, geoVars>>

\* the server action called by another client, with arguments of its own
PlaceOrderCalled(orderData, items) ==
  /\ call = NULL
  /\ Len(orders) < MaxOrders
  /\ call' = Some(NewCall("client", "ev1", orderData, items, NoClosure))
  /\ UNCHANGED <<orders, order_items, confirmations, event, menuItems,
                 name, email, orderType, quantities, submitting, submitError, confirmation>>
  /\ UNCHANGED <<filterVars, adminVars, menuVars, geoVars>>

\* placeOrder after its inserts: on to the email, or to its return
AfterInserts(c) ==
  IF trim(c.orderData.customer_email) # <<>>
  THEN [c EXCEPT !.pc = "fetchEvent"]
  ELSE [c EXCEPT !.pc = "returned", !.result = Some(Success(The(c.order)))]

\* the orders insert settles
InsertOrder(outcome) ==
  /\ \E c \in call :
       /\ c.pc = "insertOrder"
       /\ IF outcome = "ok"
          THEN LET id == Len(orders) + 1
                   row == OrderRow(id, c.eventId, c.orderData)
                   placed == [c EXCEPT !.order = Some([id |-> row.id,
                                                      customer_name |-> row.customer_name])]
               IN /\ orders' = Append(orders, row)
                  /\ call' = Some(IF Len(orderItems(c.items, id)) > 0
                                  THEN [placed EXCEPT !.pc = "insertItems"]
                                  ELSE AfterInserts(placed))
          ELSE /\ orders' = orders
               /\ call' = Some([c EXCEPT !.pc = "returned",
                                         !.result = Some(Failure(IF outcome = "noRow"
                                                                 THEN FailedToCreateOrder
                                                                 ELSE outcome))])
  /\ UNCHANGED <<order_items, confirmations, event, menuItems,
                 name, email, orderType, quantities, submitting, submitError, confirmation>>
  /\ UNCHANGED <<filterVars, adminVars, menuVars, geoVars>>

\* InsertOrderItems deleting the order row when the insert fails
InsertOrderItems_RollsBack(outcome) ==
  /\ \E c \in call :
       /\ c.pc = "insertItems"
       /\ IF outcome = "ok"
          THEN /\ order_items' = order_items \o orderItems(c.items, The(c.order).id)
               /\ call' = Some(AfterInserts([c EXCEPT !.itemsInserts = @ + 1]))
               /\ orders' = orders
          ELSE /\ order_items' = order_items
               /\ orders' = SelectSeq(orders, LAMBDA r : r.id # The(c.order).id)
               /\ call' = Some([c EXCEPT !.itemsInserts = @ + 1,
                                         !.pc = "returned",
                                         !.result = Some(Failure(outcome))])
  /\ UNCHANGED <<confirmations, event, menuItems,
                 name, email, orderType, quantities, submitting, submitError, confirmation>>
  /\ UNCHANGED <<filterVars, adminVars, menuVars, geoVars>>

\* the order_items insert settles
InsertOrderItems(outcome) ==
  /\ \E c \in call :
       /\ c.pc = "insertItems"
       /\ IF outcome = "ok"
          THEN /\ order_items' = order_items \o orderItems(c.items, The(c.order).id)
               /\ call' = Some(AfterInserts([c EXCEPT !.itemsInserts = @ + 1]))
          ELSE /\ order_items' = order_items
               /\ call' = Some([c EXCEPT !.itemsInserts = @ + 1,
                                         !.pc = "returned",
                                         !.result = Some(Failure(outcome))])
  /\ UNCHANGED <<orders, confirmations, event, menuItems,
                 name, email, orderType, quantities, submitting, submitError, confirmation>>
  /\ UNCHANGED <<filterVars, adminVars, menuVars, geoVars>>

\* the events select settles, with the event's row or without
FetchEventRow(found) ==
  /\ \E c \in call :
       /\ c.pc = "fetchEvent"
       /\ call' = Some([c EXCEPT !.pc = "sendEmail",
                                 !.locationName = IF found THEN StMary ELSE FishFry])
  /\ UNCHANGED <<orders, order_items, confirmations, event, menuItems,
                 name, email, orderType, quantities, submitting, submitError, confirmation>>
  /\ UNCHANGED <<filterVars, adminVars, menuVars, geoVars>>

ConfirmationCall(c) ==
  [to |-> trim(c.orderData.customer_email),
   locationName |-> c.locationName,
   total |-> EmailTotal(orderItemsForEmail(c.items))]

\* AwaitSendOrderConfirmation returning the email's failure as placeOrder's
AwaitSendOrderConfirmation_Propagates(outcome) ==
  /\ \E c \in call :
       /\ c.pc = "sendEmail"
       /\ LET sent == sendOrderConfirmation(outcome) IN
          /\ confirmations' = Append(confirmations, ConfirmationCall(c))
          /\ call' = Some([c EXCEPT !.emailResult = Some(sent),
                                    !.pc = "returned",
                                    !.result = Some(IF sent.ok THEN Success(The(c.order))
                                                    ELSE Failure(The(sent.error)))])
  /\ UNCHANGED <<orders, order_items, event, menuItems,
                 name, email, orderType, quantities, submitting, submitError, confirmation>>
  /\ UNCHANGED <<filterVars, adminVars, menuVars, geoVars>>

\* sendOrderConfirmation settles and placeOrder returns
AwaitSendOrderConfirmation(outcome) ==
  /\ \E c \in call :
       /\ c.pc = "sendEmail"
       /\ LET sent == sendOrderConfirmation(outcome) IN
          /\ confirmations' = Append(confirmations, ConfirmationCall(c))
          /\ call' = Some([c EXCEPT !.emailResult = Some(sent),
                                    !.pc = "returned",
                                    !.result = Some(Success(The(c.order)))])
  /\ UNCHANGED <<orders, order_items, event, menuItems,
                 name, email, orderType, quantities, submitting, submitError, confirmation>>
  /\ UNCHANGED <<filterVars, adminVars, menuVars, geoVars>>

SubmitErrorFor_Generic(result) == SomethingWentWrong

SubmitErrorFor(result) == Coalesce(result.error, SomethingWentWrong)

\* handleSubmit from its await to its end
HandleSubmitResumes ==
  /\ \E c \in call :
       /\ c.caller = "form"
       /\ c.pc = "returned"
       /\ LET result == The(c.result) IN
          IF result.success /\ result.order # NULL
          THEN /\ confirmation' = Some([orderId |-> The(result.order).id,
                                        total |-> c.closure.total,
                                        customer_name |-> The(result.order).customer_name,
                                        order_type |-> c.closure.order_type,
                                        lineItems |-> c.closure.lineItems,
                                        estimatedWaitMinutes |-> c.closure.estimatedWaitMinutes])
               /\ UNCHANGED submitError
          ELSE /\ submitError' = Some(SubmitErrorFor(result))
               /\ UNCHANGED confirmation
  /\ submitting' = FALSE
  /\ call' = NULL
  /\ UNCHANGED <<orders, order_items, confirmations, event, menuItems,
                 name, email, orderType, quantities>>
  /\ UNCHANGED <<filterVars, adminVars, menuVars, geoVars>>

\* the other client receives placeOrder's result
ClientReceives ==
  /\ \E c \in call : c.caller = "client" /\ c.pc = "returned"
  /\ call' = NULL
  /\ UNCHANGED <<orders, order_items, confirmations, event, menuItems,
                 name, email, orderType, quantities, submitting, submitError, confirmation>>
  /\ UNCHANGED <<filterVars, adminVars, menuVars, geoVars>>

\* what the customer types, and what the other client sends
NameInputs == { <<>>, <<" ">>, <<"A", "n", "n", " ">> }
EmailInputs == { <<>>, <<"a", "@", "b">> }
Item(menuItem, quantity) ==
  [menu_item_id |-> menuItem.id, quantity |-> quantity,
   item_name |-> menuItem.name, item_price |-> getPrice(menuItem)]
ClientItemLists ==
  { <<>>,
    <<Item(FishPlate, 0), Item(Pie, 0)>>,
    <<Item(FishPlate, 0), Item(Pie, 1)>>,
    <<Item(FishPlate, 2), Item(Pie, 0)>> }
ClientOrderData ==
  { [customer_name |-> <<"B", "o", "b">>, customer_email |-> e,
     order_type |-> "pickup", estimatedWaitMinutes |-> NULL] : e \in {<<>>, <<"b", "@", "x">>} }

InitOrder ==
  /\ GeoIdle
  /\ FilterMounted /\ AdminIdle /\ MenuIdle
  /\ \E ev \in OrderEvents : OrderInit(ev, OrderPageMenu(StoredMenu, ev.id, TRUE))

\* a customer works the form and places orders through it
NextOrder ==
  \/ \E value \in NameInputs : SetName(value)
  \/ \E value \in EmailInputs : SetEmail(value)
  \/ \E type \in {"dine_in", "pickup"} : SetOrderType(type)
  \/ \E itemId \in MenuIds : \E delta \in {-1, 1} : setQuantity(itemId, delta)
  \/ handleSubmit
  \/ \E outcome \in {"ok", "noRow", DbError} : InsertOrder(outcome)
  \/ \E outcome \in {"ok", DbError} : InsertOrderItems(outcome)
  \/ \E found \in BOOLEAN : FetchEventRow(found)
  \/ \E outcome \in {"sent", "notConfigured", SendError} : AwaitSendOrderConfirmation(outcome)
  \/ HandleSubmitResumes

SpecOrder == InitOrder /\ [][NextOrder]_vars

\* the order form on a second event's menu, its selections alone
InitTotals ==
  /\ GeoIdle
  /\ FilterMounted /\ AdminIdle /\ MenuIdle
  /\ \E ok \in BOOLEAN :
       OrderInit([id |-> "ev2", dine_in |-> TRUE, pickup |-> TRUE],
                 OrderPageMenu(StoredMenu, "ev2", ok))

NextTotals ==
  \/ \E type \in {"dine_in", "pickup"} : SetOrderType(type)
  \/ \E itemId \in MenuIds : \E delta \in {-1, 1} : setQuantity(itemId, delta)

SpecTotals == InitTotals /\ [][NextTotals]_vars

\* placeOrder called by other clients, the form left alone
NextPlaceOrder ==
  \/ \E orderData \in ClientOrderData : \E items \in ClientItemLists :
       PlaceOrderCalled(orderData, items)
  \/ \E outcome \in {"ok", "noRow", DbError} : InsertOrder(outcome)
  \/ \E outcome \in {"ok", DbError} : InsertOrderItems(outcome)
  \/ \E found \in BOOLEAN : FetchEventRow(found)
  \/ \E outcome \in {"sent", "notConfigured", SendError} : AwaitSendOrderConfirmation(outcome)
  \/ ClientReceives

SpecPlaceOrder == InitOrigin /\ [][NextPlaceOrder]_vars

(***************************************************************************)
(* AdminOrdersPage: the loaded orders and setStatus, which runs from one   *)
(* await to the next: the orders update, then notifyOrderReady.  The       *)
(* update reaches the table in the step in which its await settles.        *)
(***************************************************************************)
STATUS_OPTIONS == <<"pending", "confirmed", "ready", "complete">>
NoCustomerEmail == "No customer email"
NoLocationName == "-"

\* the rows of the page's orders select, newest first
\* line items read through menu_item_id from the menu as it is now
LoadedItems_LiveMenu(itemRows, orderId) ==
  LET mine == SelectSeq(itemRows,
                        LAMBDA r : /\ r.order_id = orderId
                                   /\ \E m \in Range(menu_items) : m.id = r.menu_item_id)
      MenuRow(id) == CHOOSE m \in Range(menu_items) : m.id = id
  IN [k \in DOMAIN mine |->
        [item_name |-> MenuRow(mine[k].menu_item_id).name,
         item_price |-> getPrice(MenuRow(mine[k].menu_item_id)),
         quantity |-> mine[k].quantity]]

LoadedItems(itemRows, orderId) ==
  LET mine == SelectSeq(itemRows, LAMBDA r : r.order_id = orderId)
  IN [k \in DOMAIN mine |->
        [item_name |-> mine[k].item_name, item_price |-> mine[k].item_price,
         quantity |-> mine[k].quantity]]

LoadedOrder(row, itemRows) ==
  [id |-> row.id, customer_name |-> row.customer_name,
   customer_email |-> row.customer_email, order_type |-> row.order_type,
   status |-> row.status,
   events |-> Some([locations |-> Some([name |-> Some(StMary)])]),
   order_items |-> LoadedItems(itemRows, row.id)]

LoadOrders(orderRows, itemRows) ==
  [k \in DOMAIN orderRows |-> LoadedOrder(orderRows[Len(orderRows) - k + 1], itemRows)]

getLocationName(order) ==
  IF order.events = NULL THEN NoLocationName
  ELSE IF The(order.events).locations = NULL THEN NoLocationName
  ELSE Coalesce(The(The(order.events).locations).name, NoLocationName)

\* sendOrderReady's result: no API key, a send error, or sent
sendOrderReady(outcome) ==
  IF outcome = "notConfigured" THEN [ok |-> FALSE, error |-> Some(EmailNotConfigured)]
  ELSE IF outcome # "sent" THEN [ok |-> FALSE, error |-> Some(outcome)]
  ELSE [ok |-> TRUE, error |-> NULL]

notifyOrderReady(customerEmail, outcome) ==
  IF trim(customerEmail) = <<>> THEN [ok |-> FALSE, error |-> Some(NoCustomerEmail)]
  ELSE sendOrderReady(outcome)

WithStatus(rows, orderId, newStatus) ==
  [k \in DOMAIN rows |->
     IF rows[k].id = orderId THEN [rows[k] EXCEPT !.status = newStatus] ELSE rows[k]]

\* order.customer_email?.trim()
HasCustomerEmail(order) ==
  order.customer_email # NULL /\ trim(The(order.customer_email)) # <<>>

\* onClick of a status button: setStatus up to its await of the update
SetStatusClicked(orderId, newStatus) ==
  /\ BagSize(statusCalls) + consoleErrors < MaxUpdates
  /\ Len(notifications) < MaxNotifications
  /\ updatingId # Some(orderId)
  /\ \E k \in DOMAIN pageOrders :
       /\ pageOrders[k].id = orderId
       /\ statusCalls' = BagAdd(statusCalls,
                                [orderId |-> orderId, newStatus |-> newStatus,
                                 order |-> pageOrders[k], pc |-> "update"])
  /\ updatingId' = Some(orderId)
  /\ UNCHANGED <<pageOrders, notifications, consoleErrors>>
  /\ UNCHANGED <<filterVars, orderVars, menuVars, geoVars>>

\* UpdateSettles showing the requested status although the update failed
UpdateSettles_Optimistic(c, ok) ==
  /\ c \in DOMAIN statusCalls
  /\ c.pc = "update"
  /\ IF ~ok
     THEN /\ consoleErrors' = consoleErrors + 1
          /\ updatingId' = NULL
          /\ statusCalls' = BagRemove(statusCalls, c)
          /\ pageOrders' = WithStatus(pageOrders, c.orderId, c.newStatus)
          /\ UNCHANGED <<orders, notifications>>
     ELSE /\ UNCHANGED consoleErrors
          /\ orders' = WithStatus(orders, c.orderId, c.newStatus)
          /\ pageOrders' = WithStatus(pageOrders, c.orderId, c.newStatus)
          /\ IF c.newStatus = "ready" /\ HasCustomerEmail(c.order)
             THEN /\ statusCalls' = BagAdd(BagRemove(statusCalls, c), [c EXCEPT !.pc = "notify"])
                  /\ notifications' = Append(notifications,
                                             [to |-> trim(The(c.order.customer_email)),
                                              locationName |-> getLocationName(c.order)])
                  /\ UNCHANGED updatingId
             ELSE /\ statusCalls' = BagRemove(statusCalls, c)
                  /\ updatingId' = NULL
                  /\ UNCHANGED notifications
  /\ UNCHANGED <<order_items, confirmations, call, event, menuItems,
                 name, email, orderType, quantities, submitting, submitError, confirmation>>
  /\ UNCHANGED <<filterVars, menuVars, geoVars>>

\* the orders update settles: setStatus runs to its return or to its await of
\* notifyOrderReady
UpdateSettles(c, ok) ==
  /\ c \in DOMAIN statusCalls
  /\ c.pc = "update"
  /\ IF ~ok
     THEN /\ consoleErrors' = consoleErrors + 1
          /\ updatingId' = NULL
          /\ statusCalls' = BagRemove(statusCalls, c)
          /\ UNCHANGED <<orders, pageOrders, notifications>>
     ELSE /\ UNCHANGED consoleErrors
          /\ orders' = WithStatus(orders, c.orderId, c.newStatus)
          /\ pageOrders' = WithStatus(pageOrders, c.orderId, c.newStatus)
          /\ IF c.newStatus = "ready" /\ HasCustomerEmail(c.order)
             THEN /\ statusCalls' = BagAdd(BagRemove(statusCalls, c), [c EXCEPT !.pc = "notify"])
                  /\ notifications' = Append(notifications,
                                             [to |-> trim(The(c.order.customer_email)),
                                              locationName |-> getLocationName(c.order)])
                  /\ UNCHANGED updatingId
             ELSE /\ statusCalls' = BagRemove(statusCalls, c)
                  /\ updatingId' = NULL
                  /\ UNCHANGED notifications
  /\ UNCHANGED <<order_items, confirmations, call, event, menuItems,
                 name, email, orderType, quantities, submitting, submitError, confirmation>>
  /\ UNCHANGED <<filterVars, menuVars, geoVars>>

\* NotifySettles putting the status back when the email was not sent
NotifySettles_Reverts(c, outcome) ==
  /\ c \in DOMAIN statusCalls
  /\ c.pc = "notify"
  /\ statusCalls' = BagRemove(statusCalls, c)
  /\ updatingId' = NULL
  /\ IF notifyOrderReady(The(c.order.customer_email), outcome).ok
     THEN UNCHANGED <<orders, pageOrders>>
     ELSE /\ orders' = WithStatus(orders, c.orderId, c.order.status)
          /\ pageOrders' = WithStatus(pageOrders, c.orderId, c.order.status)
  /\ UNCHANGED <<notifications, consoleErrors>>
  /\ UNCHANGED <<order_items, confirmations, call, event, menuItems,
                 name, email, orderType, quantities, submitting, submitError, confirmation>>
  /\ UNCHANGED <<filterVars, menuVars, geoVars>>

\* notifyOrderReady settles and setStatus returns
NotifySettles(c, outcome) ==
  /\ c \in DOMAIN statusCalls
  /\ c.pc = "notify"
  /\ notifyOrderReady(The(c.order.customer_email), outcome).ok \in BOOLEAN
  /\ statusCalls' = BagRemove(statusCalls, c)
  /\ updatingId' = NULL
  /\ UNCHANGED <<pageOrders, notifications, consoleErrors>>
  /\ UNCHANGED <<filterVars, orderVars, menuVars, geoVars>>

\* two orders placed through placeOrder, one with an email and one without
PlacedOrders ==
  << OrderRow(1, "ev1", [customer_name |-> <<"A", "n", "n">>,
                         customer_email |-> <<"a", "@", "b">>,
                         order_type |-> "pickup", estimatedWaitMinutes |-> NULL]),
     OrderRow(2, "ev1", [customer_name |-> <<"B", "o", "b">>,
                         customer_email |-> <<>>,
                         order_type |-> "dine_in", estimatedWaitMinutes |-> NULL]) >>
PlacedItems ==
  orderItems(<<Item(FishPlate, 2), Item(Pie, 1)>>, 1) \o orderItems(<<Item(FishPlate, 1)>>, 2)

InitAdminOrders ==
  /\ GeoIdle
  /\ FilterMounted
  /\ FormInit([id |-> "ev1", dine_in |-> TRUE, pickup |-> TRUE],
              OrderPageMenu(StoredMenu, "ev1", TRUE))
  /\ orders = PlacedOrders /\ order_items = PlacedItems
  /\ confirmations = <<>> /\ call = NULL
  /\ pageOrders = LoadOrders(orders, order_items)
  /\ updatingId = NULL /\ statusCalls = EmptyBag /\ notifications = <<>> /\ consoleErrors = 0
  /\ MenuIdle

NextAdminOrders ==
  \/ \E orderId \in {1, 2} : \E k \in DOMAIN STATUS_OPTIONS :
       SetStatusClicked(orderId, STATUS_OPTIONS[k])
  \/ \E c \in DOMAIN statusCalls : \E ok \in BOOLEAN : UpdateSettles(c, ok)
  \/ \E c \in DOMAIN statusCalls :
       \E outcome \in {"sent", "notConfigured", SendError} : NotifySettles(c, outcome)

SpecAdminOrders == InitAdminOrders /\ [][NextAdminOrders]_vars



(***************************************************************************)
(* AdminMenuPage: the events of the selected location with their menu      *)
(* items, and the handlers that write the menu_items table.  A handler     *)
(* sends its request, which reaches the table, and resumes when the        *)
(* response arrives; one request is awaited at a time.                     *)
(***************************************************************************)
MenuIdPool == <<"n1", "n2", "n3", "n4", "n5", "n6", "n7", "n8">>
Date3 == "2026-03-20"
DateOrder == <<Date1, Date2, Date3>>
DateRank(d) == CHOOSE i \in DOMAIN DateOrder : DateOrder[i] = d

CopyPrompt == "Please choose an event to copy to."
NoSourceEvent == "Could not find source event."
NothingToCopy == "Source event has no menu items to copy."
CopyFailed == "copy failed"

\* the columns the page selects of a menu_items row
MenuItemRow(r) ==
  [id |-> r.id, event_id |-> r.event_id, name |-> r.name, description |-> r.description,
   price |-> r.price, category |-> r.category, available |-> r.available,
   prep_time_minutes |-> r.prep_time_minutes, dietary_tags |-> r.dietary_tags,
   dine_in_only |-> r.dine_in_only, pickup_only |-> r.pickup_only]

MenuItemRows(rows) == [k \in DOMAIN rows |-> MenuItemRow(rows[k])]

RECURSIVE NewestFirst(_)
NewestFirst(rows) ==
  IF rows = <<>> THEN <<>>
  ELSE LET rest == NewestFirst(Tail(rows))
           later == SelectSeq(rest, LAMBDA r : DateRank(r.event_date) > DateRank(Head(rows).event_date))
           other == SelectSeq(rest, LAMBDA r : DateRank(r.event_date) <= DateRank(Head(rows).event_date))
       IN later \o <<Head(rows)>> \o other

\* the load of the location's events with their menu items
LoadMenuEvents(eventRows, itemRows, locationId) ==
  LET rows == NewestFirst(SelectSeq(eventRows, LAMBDA e : e.location_id = locationId))
  IN [k \in DOMAIN rows |->
        [id |-> rows[k].id, event_date |-> rows[k].event_date,
         start_time |-> rows[k].start_time,
         menu_items |-> MenuItemRows(SelectSeq(itemRows,
                                               LAMBDA r : r.event_id = rows[k].id))]]

PageItems == UNION {Range(menuEvents[k].menu_items) : k \in DOMAIN menuEvents}
PageEventIds == {menuEvents[k].id : k \in DOMAIN menuEvents}

\* the item form and the copy dialog cover the page while they are open
PageClickable == ~modalOpen /\ copySourceEventId = NULL

openAdd(eventId) ==
  /\ PageClickable
  /\ editingItem' = NULL /\ addForEventId' = Some(eventId) /\ modalOpen' = TRUE
  /\ UNCHANGED <<menuEvents, saving, deleteConfirmId, copySourceEventId, copyTargetEventId,
                 copyingMenu, copyMenuMessage, copyMenuError, menuCall, menuRequests>>
  /\ UNCHANGED <<filterVars, orderVars, adminVars, geoVars, tableVars, locationPageVars>>

openEdit(item) ==
  /\ PageClickable
  /\ editingItem' = Some(item) /\ addForEventId' = NULL /\ modalOpen' = TRUE
  /\ UNCHANGED <<menuEvents, saving, deleteConfirmId, copySourceEventId, copyTargetEventId,
                 copyingMenu, copyMenuMessage, copyMenuError, menuCall, menuRequests>>
  /\ UNCHANGED <<filterVars, orderVars, adminVars, geoVars, tableVars, locationPageVars>>

closeModal ==
  /\ modalOpen
  /\ modalOpen' = FALSE /\ editingItem' = NULL /\ addForEventId' = NULL
  /\ UNCHANGED <<menuEvents, saving, deleteConfirmId, copySourceEventId, copyTargetEventId,
                 copyingMenu, copyMenuMessage, copyMenuError, menuCall, menuRequests>>
  /\ UNCHANGED <<filterVars, orderVars, adminVars, geoVars, tableVars, locationPageVars>>

\* ItemFormModal.handleSubmit: the payload handed to onSave, or NULL when the
\* form is rejected.  The name and the category are typed without blanks
\* around them.
ItemFormPayload(form) ==
  LET numPrice == parseFloat(form.price)
      numPrep == IF trim(form.prepTime) # <<>> THEN Some(parseInt(form.prepTime)) ELSE NULL
  IN IF numPrice = NaN \/ numPrice < 0 THEN NULL
     ELSE IF numPrep # NULL /\ (The(numPrep) = NaN \/ The(numPrep) < 0) THEN NULL
     ELSE Some([name |-> form.name,
                description |-> form.description,
                price |-> numPrice,
                category |-> IF form.category = "" THEN "other" ELSE form.category,
                prep_time_minutes |-> numPrep,
                dietary_tags |-> form.dietaryTags,
                dine_in_only |-> form.dineInOnly,
                pickup_only |-> form.pickupOnly])

\* the columns onSave writes, for an update and for an insert
SavedColumns(payload) ==
  [name |-> payload.name,
   description |-> IF payload.description = "" THEN NULL ELSE Some(payload.description),
   price |-> [string |-> NULL, number |-> Some(payload.price)],
   category |-> payload.category,
   prep_time_minutes |-> IF payload.prep_time_minutes \in {NULL, Some(0)} THEN NULL
                         ELSE payload.prep_time_minutes,
   dietary_tags |-> payload.dietary_tags,
   dine_in_only |-> Some(payload.dine_in_only),
   pickup_only |-> Some(payload.pickup_only)]

UpdatedRow(r, cols) ==
  [r EXCEPT !.name = cols.name, !.description = cols.description, !.price = cols.price,
            !.category = cols.category, !.prep_time_minutes = cols.prep_time_minutes,
            !.dietary_tags = cols.dietary_tags, !.dine_in_only = cols.dine_in_only,
            !.pickup_only = cols.pickup_only]

\* a row as inserted: the columns given, the generated id, and the defaults
\* of the columns not given
InsertedRow(id, eventId, cols, isAvailable) ==
  [id |-> id, event_id |-> eventId, name |-> cols.name, description |-> cols.description,
   price |-> cols.price, category |-> cols.category, available |-> isAvailable,
   blocked |-> NULL, prep_time_minutes |-> cols.prep_time_minutes,
   dietary_tags |-> cols.dietary_tags, dine_in_only |-> cols.dine_in_only,
   pickup_only |-> cols.pickup_only]

\* { ...m, ...payload } on the page
MergedWithPayload(m, payload) ==
  [m EXCEPT !.name = payload.name, !.description = Some(payload.description),
            !.price = [string |-> NULL, number |-> Some(payload.price)],
            !.category = payload.category,
            !.prep_time_minutes = payload.prep_time_minutes,
            !.dietary_tags = payload.dietary_tags,
            !.dine_in_only = Some(payload.dine_in_only),
            !.pickup_only = Some(payload.pickup_only)]

MapItems(evs, f(_)) ==
  [k \in DOMAIN evs |->
     [evs[k] EXCEPT !.menu_items = [j \in DOMAIN evs[k].menu_items |-> f(evs[k].menu_items[j])]]]

PrependItems(evs, eventId, items) ==
  [k \in DOMAIN evs |->
     IF evs[k].id = eventId
     THEN [evs[k] EXCEPT !.menu_items = items \o evs[k].menu_items]
     ELSE evs[k]]

MenuCall(kind) ==
  [kind |-> kind, itemId |-> "", eventId |-> NULL, payload |-> NULL,
   data |-> <<>>, error |-> NULL]

\* the modal's submit: ItemFormModal.handleSubmit, then onSave up to its await
onSave(form, ok) ==
  /\ modalOpen /\ ~saving /\ menuCall = NULL
  /\ menuRequests < MaxMenuRequests
  /\ \E submitted \in {ItemFormPayload(form)} :
       IF submitted = NULL
       THEN UNCHANGED <<saving, menuCall, menu_items, menuIdsIssued>>
       ELSE LET payload == The(submitted) IN
            /\ saving' = TRUE
            /\ IF editingItem # NULL
               THEN /\ menu_items' =
                         IF ok
                         THEN [k \in DOMAIN menu_items |->
                                 IF menu_items[k].id = The(editingItem).id
                                 THEN UpdatedRow(menu_items[k], SavedColumns(payload))
                                 ELSE menu_items[k]]
                         ELSE menu_items
                    /\ menuCall' = Some([MenuCall("update") EXCEPT
                                           !.itemId = The(editingItem).id,
                                           !.payload = Some(payload),
                                           !.error = IF ok THEN NULL ELSE Some(DbError)])
                    /\ UNCHANGED menuIdsIssued
               ELSE /\ menuIdsIssued < MaxMenuIds
                    /\ LET row == InsertedRow(MenuIdPool[menuIdsIssued + 1],
                                              Coalesce(addForEventId, ""),
                                              SavedColumns(payload), TRUE) IN
                       /\ menu_items' = IF ok THEN Append(menu_items, row) ELSE menu_items
                       /\ menuIdsIssued' = IF ok THEN menuIdsIssued + 1 ELSE menuIdsIssued
                       /\ menuCall' = Some([MenuCall("insert") EXCEPT
                                              !.eventId = addForEventId,
                                              !.data = IF ok THEN <<MenuItemRow(row)>> ELSE <<>>,
                                              !.error = IF ok THEN NULL ELSE Some(DbError)])
  /\ UNCHANGED <<event_rows, eventIdsIssued>>
  /\ menuRequests' = menuRequests + (IF menuCall' # NULL THEN 1 ELSE 0)
  /\ UNCHANGED <<menuEvents, modalOpen, editingItem, addForEventId, deleteConfirmId,
                 copySourceEventId, copyTargetEventId, copyingMenu, copyMenuMessage,
                 copyMenuError>>
  /\ UNCHANGED <<filterVars, orderVars, adminVars, geoVars, locationPageVars>>

\* onSave after its await
onSaveResumes ==
  /\ \E c \in menuCall :
       /\ c.kind \in {"update", "insert"}
       /\ IF c.error # NULL \/ (c.kind = "insert" /\ c.data = <<>>)
          THEN UNCHANGED <<menuEvents, modalOpen, editingItem, addForEventId>>
          ELSE /\ menuEvents' =
                    IF c.kind = "update"
                    THEN MapItems(menuEvents,
                                  LAMBDA m : IF m.id = c.itemId
                                             THEN MergedWithPayload(m, The(c.payload))
                                             ELSE m)
                    ELSE PrependItems(menuEvents, Coalesce(c.eventId, ""), c.data)
               /\ modalOpen' = FALSE /\ editingItem' = NULL /\ addForEventId' = NULL
  /\ saving' = FALSE
  /\ menuCall' = NULL
  /\ UNCHANGED menuRequests
  /\ UNCHANGED <<deleteConfirmId, copySourceEventId, copyTargetEventId, copyingMenu,
                 copyMenuMessage, copyMenuError>>
  /\ UNCHANGED <<filterVars, orderVars, adminVars, geoVars, tableVars, locationPageVars>>

\* handleToggleAvailable up to its await: the update writes the negation of
\* the value the page shows
handleToggleAvailable(item, ok) ==
  /\ PageClickable
  /\ menuCall = NULL
  /\ menuRequests < MaxMenuRequests
  /\ menu_items' = IF ok
                   THEN [k \in DOMAIN menu_items |->
                           IF menu_items[k].id = item.id
                           THEN [menu_items[k] EXCEPT !.available = ~item.available]
                           ELSE menu_items[k]]
                   ELSE menu_items
  /\ menuCall' = Some([MenuCall("toggle") EXCEPT
                         !.itemId = item.id, !.error = IF ok THEN NULL ELSE Some(DbError)])
  /\ UNCHANGED <<event_rows, menuIdsIssued, eventIdsIssued>>
  /\ menuRequests' = menuRequests + (IF menuCall' # NULL THEN 1 ELSE 0)
  /\ UNCHANGED <<menuEvents, modalOpen, editingItem, addForEventId, saving, deleteConfirmId,
                 copySourceEventId, copyTargetEventId, copyingMenu, copyMenuMessage,
                 copyMenuError>>
  /\ UNCHANGED <<filterVars, orderVars, adminVars, geoVars, locationPageVars>>

handleToggleAvailableResumes ==
  /\ \E c \in menuCall :
       /\ c.kind = "toggle"
       /\ menuEvents' = IF c.error = NULL
                        THEN MapItems(menuEvents,
                                      LAMBDA m : IF m.id = c.itemId
                                                 THEN [m EXCEPT !.available = ~m.available]
                                                 ELSE m)
                        ELSE menuEvents
  /\ menuCall' = NULL
  /\ UNCHANGED menuRequests
  /\ UNCHANGED <<modalOpen, editingItem, addForEventId, saving, deleteConfirmId,
                 copySourceEventId, copyTargetEventId, copyingMenu, copyMenuMessage,
                 copyMenuError>>
  /\ UNCHANGED <<filterVars, orderVars, adminVars, geoVars, tableVars, locationPageVars>>

setDeleteConfirmId(id) ==
  /\ PageClickable
  /\ deleteConfirmId # id
  /\ deleteConfirmId' = id
  /\ UNCHANGED <<menuEvents, modalOpen, editingItem, addForEventId, saving,
                 copySourceEventId, copyTargetEventId, copyingMenu, copyMenuMessage,
                 copyMenuError, menuCall, menuRequests>>
  /\ UNCHANGED <<filterVars, orderVars, adminVars, geoVars, tableVars, locationPageVars>>

\* handleDelete up to its await: the row is deleted from menu_items
handleDelete(id, ok) ==
  /\ PageClickable
  /\ deleteConfirmId = Some(id)
  /\ menuCall = NULL
  /\ menuRequests < MaxMenuRequests
  /\ menu_items' = IF ok THEN SelectSeq(menu_items, LAMBDA r : r.id # id) ELSE menu_items
  /\ menuCall' = Some([MenuCall("delete") EXCEPT
                         !.itemId = id, !.error = IF ok THEN NULL ELSE Some(DbError)])
  /\ UNCHANGED <<event_rows, menuIdsIssued, eventIdsIssued>>
  /\ menuRequests' = menuRequests + (IF menuCall' # NULL THEN 1 ELSE 0)
  /\ UNCHANGED <<menuEvents, modalOpen, editingItem, addForEventId, saving, deleteConfirmId,
                 copySourceEventId, copyTargetEventId, copyingMenu, copyMenuMessage,
                 copyMenuError>>
  /\ UNCHANGED <<filterVars, orderVars, adminVars, geoVars, locationPageVars>>

handleDeleteResumes ==
  /\ \E c \in menuCall :
       /\ c.kind = "delete"
       /\ IF c.error = NULL
          THEN /\ menuEvents' =
                    [k \in DOMAIN menuEvents |->
                       [menuEvents[k] EXCEPT !.menu_items =
                          SelectSeq(menuEvents[k].menu_items, LAMBDA m : m.id # c.itemId)]]
               /\ deleteConfirmId' = NULL
          ELSE UNCHANGED <<menuEvents, deleteConfirmId>>
  /\ menuCall' = NULL
  /\ UNCHANGED menuRequests
  /\ UNCHANGED <<modalOpen, editingItem, addForEventId, saving,
                 copySourceEventId, copyTargetEventId, copyingMenu, copyMenuMessage,
                 copyMenuError>>
  /\ UNCHANGED <<filterVars, orderVars, adminVars, geoVars, tableVars, locationPageVars>>

openCopyMenu(sourceEventId) ==
  /\ PageClickable
  /\ copySourceEventId' = Some(sourceEventId)
  /\ copyTargetEventId' = ""
  /\ copyMenuError' = NULL
  /\ UNCHANGED <<menuEvents, modalOpen, editingItem, addForEventId, saving, deleteConfirmId,
                 copyingMenu, copyMenuMessage, menuCall, menuRequests>>
  /\ UNCHANGED <<filterVars, orderVars, adminVars, geoVars, tableVars, locationPageVars>>

setCopyTargetEventId(value) ==
  /\ copySourceEventId # NULL
  /\ value # "" => Some(value) # copySourceEventId
  /\ copyTargetEventId # value
  /\ copyTargetEventId' = value
  /\ UNCHANGED <<menuEvents, modalOpen, editingItem, addForEventId, saving, deleteConfirmId,
                 copySourceEventId, copyingMenu, copyMenuMessage, copyMenuError, menuCall, menuRequests>>
  /\ UNCHANGED <<filterVars, orderVars, adminVars, geoVars, tableVars, locationPageVars>>

closeCopyMenu ==
  /\ copySourceEventId # NULL
  /\ copySourceEventId' = NULL
  /\ copyTargetEventId' = ""
  /\ copyMenuError' = NULL
  /\ UNCHANGED <<menuEvents, modalOpen, editingItem, addForEventId, saving, deleteConfirmId,
                 copyingMenu, copyMenuMessage, menuCall, menuRequests>>
  /\ UNCHANGED <<filterVars, orderVars, adminVars, geoVars, tableVars, locationPageVars>>

\* the rows handleCopyMenu inserts for the items of the source event
CopyMenuColumns(item) ==
  [name |-> item.name, description |-> item.description, price |-> item.price,
   category |-> item.category, prep_time_minutes |-> item.prep_time_minutes,
   dietary_tags |-> item.dietary_tags,
   dine_in_only |-> Some(Coalesce(item.dine_in_only, FALSE)),
   pickup_only |-> Some(Coalesce(item.pickup_only, FALSE))]

CopyMenuRows(items, targetEventId, issued) ==
  [k \in DOMAIN items |->
     InsertedRow(MenuIdPool[issued + k], targetEventId, CopyMenuColumns(items[k]),
                 items[k].available)]

\* handleCopyMenu up to its await or to its early return
handleCopyMenu(ok) ==
  /\ copySourceEventId # NULL
  /\ ~copyingMenu
  /\ menuCall = NULL
  /\ menuRequests < MaxMenuRequests
  /\ IF copyTargetEventId = ""
     THEN /\ copyMenuError' = Some(CopyPrompt)
          /\ UNCHANGED <<copyingMenu, copyMenuMessage, menuCall, menu_items, menuIdsIssued>>
     ELSE IF The(copySourceEventId) \notin PageEventIds
     THEN /\ copyMenuError' = Some(NoSourceEvent)
          /\ UNCHANGED <<copyingMenu, copyMenuMessage, menuCall, menu_items, menuIdsIssued>>
     ELSE LET sourceEvent == CHOOSE e \in Range(menuEvents) : e.id = The(copySourceEventId)
              rows == CopyMenuRows(sourceEvent.menu_items, copyTargetEventId, menuIdsIssued)
          IN IF sourceEvent.menu_items = <<>>
             THEN /\ copyMenuError' = Some(NothingToCopy)
                  /\ UNCHANGED <<copyingMenu, copyMenuMessage, menuCall, menu_items,
                                 menuIdsIssued>>
             ELSE /\ menuIdsIssued + Len(sourceEvent.menu_items) <= MaxMenuIds
                  /\ copyingMenu' = TRUE
                  /\ copyMenuError' = NULL
                  /\ copyMenuMessage' = NULL
                  /\ menu_items' = IF ok THEN menu_items \o rows ELSE menu_items
                  /\ menuIdsIssued' = IF ok THEN menuIdsIssued + Len(rows) ELSE menuIdsIssued
                  /\ menuCall' = Some([MenuCall("copy") EXCEPT
                                         !.eventId = Some(copyTargetEventId),
                                         !.data = IF ok THEN MenuItemRows(rows) ELSE <<>>,
                                         !.error = IF ok THEN NULL ELSE Some(CopyFailed)])
  /\ UNCHANGED <<event_rows, eventIdsIssued>>
  /\ menuRequests' = menuRequests + (IF menuCall' # NULL THEN 1 ELSE 0)
  /\ UNCHANGED <<menuEvents, modalOpen, editingItem, addForEventId, saving, deleteConfirmId,
                 copySourceEventId, copyTargetEventId>>
  /\ UNCHANGED <<filterVars, orderVars, adminVars, geoVars, locationPageVars>>

\* handleCopyMenu after its await; the message is the number of items copied
handleCopyMenuResumes ==
  /\ \E c \in menuCall :
       /\ c.kind = "copy"
       /\ IF c.error # NULL
          THEN /\ copyMenuError' = c.error
               /\ UNCHANGED <<menuEvents, copyMenuMessage, copySourceEventId,
                              copyTargetEventId>>
          ELSE /\ menuEvents' = PrependItems(menuEvents, The(c.eventId), c.data)
               /\ copyMenuMessage' = Some(Len(c.data))
               /\ copySourceEventId' = NULL
               /\ copyTargetEventId' = ""
               /\ copyMenuError' = NULL
  /\ copyingMenu' = FALSE
  /\ menuCall' = NULL
  /\ UNCHANGED menuRequests
  /\ UNCHANGED <<modalOpen, editingItem, addForEventId, saving, deleteConfirmId>>
  /\ UNCHANGED <<filterVars, orderVars, adminVars, geoVars, tableVars, locationPageVars>>

\* AdminOrdersPage loads the orders again
ReloadOrders ==
  /\ statusCalls = EmptyBag
  /\ pageOrders' = LoadOrders(orders, order_items)
  /\ UNCHANGED <<updatingId, statusCalls, notifications, consoleErrors>>
  /\ UNCHANGED <<filterVars, orderVars, menuVars, geoVars>>

\* what the admin types into the item form
ItemForms ==
  { [name |-> "Fish Plate", description |-> "", price |-> <<"1", "5">>, category |-> "fish",
     prepTime |-> <<"0">>, dietaryTags |-> NoTags, dineInOnly |-> FALSE, pickupOnly |-> TRUE],
    [name |-> "Roll", description |-> "Fresh", price |-> <<"0", ".", "7", "5">>,
     category |-> "", prepTime |-> <<>>, dietaryTags |-> NoTags,
     dineInOnly |-> FALSE, pickupOnly |-> FALSE],
    [name |-> "Pie", description |-> "", price |-> <<"x">>, category |-> "desserts",
     prepTime |-> <<>>, dietaryTags |-> NoTags, dineInOnly |-> FALSE, pickupOnly |-> FALSE] }

\* the menu of the first event alone, orders placed from it, both pages loaded
MenuPageLoaded ==
  /\ menuEvents = LoadMenuEvents(event_rows, menu_items, "loc1")
  /\ modalOpen = FALSE /\ editingItem = NULL /\ addForEventId = NULL
  /\ saving = FALSE /\ deleteConfirmId = NULL
  /\ copySourceEventId = NULL /\ copyTargetEventId = ""
  /\ copyingMenu = FALSE /\ copyMenuMessage = NULL /\ copyMenuError = NULL
  /\ menuCall = NULL /\ menuRequests = 0

InitMenu ==
  /\ GeoIdle
  /\ FilterMounted
  /\ FormInit([id |-> "ev1", dine_in |-> TRUE, pickup |-> TRUE],
              OrderPageMenu(StoredMenu, "ev1", TRUE))
  /\ orders = PlacedOrders /\ order_items = PlacedItems
  /\ confirmations = <<>> /\ call = NULL
  /\ menu_items = <<FishPlate, Pie>> /\ event_rows = StoredEvents
  /\ menuIdsIssued = 0 /\ eventIdsIssued = 0
  /\ pageOrders = LoadOrders(orders, order_items)
  /\ updatingId = NULL /\ statusCalls = EmptyBag /\ notifications = <<>> /\ consoleErrors = 0
  /\ MenuPageLoaded
  /\ LocationPageIdle

NextMenu ==
  \/ \E eventId \in PageEventIds : openAdd(eventId)
  \/ \E item \in PageItems : openEdit(item)
  \/ closeModal
  \/ \E form \in ItemForms : \E ok \in BOOLEAN : onSave(form, ok)
  \/ onSaveResumes
  \/ \E item \in PageItems : \E ok \in BOOLEAN : handleToggleAvailable(item, ok)
  \/ handleToggleAvailableResumes
  \/ \E item \in PageItems : setDeleteConfirmId(Some(item.id))
  \/ setDeleteConfirmId(NULL)
  \/ \E item \in PageItems : \E ok \in BOOLEAN : handleDelete(item.id, ok)
  \/ handleDeleteResumes
  \/ \E eventId \in PageEventIds : openCopyMenu(eventId)
  \/ \E value \in PageEventIds \cup {""} : setCopyTargetEventId(value)
  \/ closeCopyMenu
  \/ \E ok \in BOOLEAN : handleCopyMenu(ok)
  \/ handleCopyMenuResumes
  \/ ReloadOrders

SpecMenu == InitMenu /\ [][NextMenu]_vars

(***************************************************************************)
(* AdminLocationPage: the events of the location and                       *)
(* handleDuplicateEventSubmit, which runs from one await to the next: the  *)
(* events insert, the select of the source event's menu items, and the     *)
(* insert of their copies.                                                 *)
(***************************************************************************)
EventIdPool == <<"ev3", "ev4", "ev5">>
ChooseDate == "Please choose a date."
DuplicateFailed == "Could not duplicate event."
EventDuplicated == "Event duplicated successfully."

\* the columns the page selects of an events row
EventRow(r) ==
  [id |-> r.id, event_date |-> r.event_date, start_time |-> r.start_time,
   end_time |-> r.end_time, dine_in |-> r.dine_in, pickup |-> r.pickup, notes |-> r.notes]

LoadLocationEvents(eventRows, locationId) ==
  LET rows == NewestFirst(SelectSeq(eventRows, LAMBDA e : e.location_id = locationId))
  IN [k \in DOMAIN rows |-> EventRow(rows[k])]

openDuplicateEvent(ev) ==
  /\ duplicateSourceEvent = NULL
  /\ duplicateSourceEvent' = Some(ev)
  /\ duplicateEventDate' = ""
  /\ duplicateEventError' = NULL
  /\ UNCHANGED <<locationEvents, duplicatingEvent, duplicateEventMessage, duplicateCall>>
  /\ UNCHANGED <<filterVars, orderVars, adminVars, geoVars, tableVars, menuPageVars>>

setDuplicateEventDate(value) ==
  /\ duplicateSourceEvent # NULL
  /\ duplicateEventDate # value
  /\ duplicateEventDate' = value
  /\ UNCHANGED <<locationEvents, duplicateSourceEvent, duplicatingEvent,
                 duplicateEventMessage, duplicateEventError, duplicateCall>>
  /\ UNCHANGED <<filterVars, orderVars, adminVars, geoVars, tableVars, menuPageVars>>

closeDuplicateEvent ==
  /\ duplicateSourceEvent # NULL
  /\ duplicateSourceEvent' = NULL
  /\ duplicateEventDate' = ""
  /\ duplicateEventError' = NULL
  /\ UNCHANGED <<locationEvents, duplicatingEvent, duplicateEventMessage, duplicateCall>>
  /\ UNCHANGED <<filterVars, orderVars, adminVars, geoVars, tableVars, menuPageVars>>

\* the events row the handler inserts
DuplicatedEvent(id, locationId, source, date) ==
  [id |-> id, location_id |-> locationId, event_date |-> date,
   start_time |-> source.start_time, end_time |-> source.end_time,
   dine_in |-> source.dine_in, pickup |-> source.pickup, notes |-> source.notes,
   active |-> TRUE]

\* handleDuplicateEventSubmit up to its first await or to its early return
handleDuplicateEventSubmit(ok) ==
  /\ duplicateSourceEvent # NULL
  /\ ~duplicatingEvent
  /\ duplicateCall = NULL
  /\ IF duplicateEventDate = ""
     THEN /\ duplicateEventError' = Some(ChooseDate)
          /\ UNCHANGED <<duplicatingEvent, duplicateEventMessage, duplicateCall,
                         event_rows, eventIdsIssued>>
     ELSE /\ eventIdsIssued < MaxEventIds
          /\ duplicatingEvent' = TRUE
          /\ duplicateEventError' = NULL
          /\ duplicateEventMessage' = NULL
          /\ LET row == DuplicatedEvent(EventIdPool[eventIdsIssued + 1], "loc1",
                                        The(duplicateSourceEvent), duplicateEventDate) IN
             /\ event_rows' = IF ok THEN Append(event_rows, row) ELSE event_rows
             /\ eventIdsIssued' = IF ok THEN eventIdsIssued + 1 ELSE eventIdsIssued
             /\ duplicateCall' =
                  Some([pc |-> "insertEvent",
                        source |-> The(duplicateSourceEvent),
                        createdEvent |-> IF ok THEN Some(EventRow(row)) ELSE NULL,
                        eventError |-> IF ok THEN NULL ELSE Some(DbError),
                        sourceMenuItems |-> NULL])
  /\ UNCHANGED <<menu_items, menuIdsIssued>>
  /\ UNCHANGED <<locationEvents, duplicateSourceEvent, duplicateEventDate>>
  /\ UNCHANGED <<filterVars, orderVars, adminVars, geoVars, menuPageVars>>

\* the columns the handler selects of the source event's menu items
SourceMenuItem(r) ==
  [name |-> r.name, description |-> r.description, price |-> r.price,
   category |-> r.category, available |-> r.available,
   prep_time_minutes |-> r.prep_time_minutes, dietary_tags |-> r.dietary_tags]

\* the events insert has settled: the error is reported, or the source
\* event's menu items are selected
DuplicateSelectsMenu(ok) ==
  /\ \E c \in duplicateCall :
       /\ c.pc = "insertEvent"
       /\ IF c.eventError # NULL \/ c.createdEvent = NULL
          THEN /\ duplicatingEvent' = FALSE
               /\ duplicateEventError' = Some(Coalesce(c.eventError, DuplicateFailed))
               /\ duplicateCall' = NULL
          ELSE /\ LET rows == SelectSeq(menu_items, LAMBDA r : r.event_id = c.source.id) IN
                  duplicateCall' =
                    Some([c EXCEPT !.pc = "selectMenu",
                                   !.sourceMenuItems =
                                      IF ok
                                      THEN Some([k \in DOMAIN rows |-> SourceMenuItem(rows[k])])
                                      ELSE NULL])
               /\ UNCHANGED <<duplicatingEvent, duplicateEventError>>
  /\ UNCHANGED <<locationEvents, duplicateSourceEvent, duplicateEventDate,
                 duplicateEventMessage>>
  /\ UNCHANGED <<filterVars, orderVars, adminVars, geoVars, tableVars, menuPageVars>>

\* the rows inserted for the copied items: the flags are not given and take
\* the columns' default
DuplicateColumns(item) ==
  [name |-> item.name, description |-> item.description, price |-> item.price,
   category |-> item.category, prep_time_minutes |-> item.prep_time_minutes,
   dietary_tags |-> item.dietary_tags,
   dine_in_only |-> Some(FALSE), pickup_only |-> Some(FALSE)]

copiedItems(items, eventId, issued) ==
  [k \in DOMAIN items |->
     InsertedRow(MenuIdPool[issued + k], eventId, DuplicateColumns(items[k]),
                 items[k].available)]

\* the end of the handler
DuplicateDone(c) ==
  /\ locationEvents' = <<The(c.createdEvent)>> \o locationEvents
  /\ duplicatingEvent' = FALSE
  /\ duplicateEventMessage' = Some(EventDuplicated)
  /\ duplicateSourceEvent' = NULL
  /\ duplicateEventDate' = ""
  /\ duplicateEventError' = NULL
  /\ duplicateCall' = NULL

\* the select has settled: the copies are inserted, or with nothing to copy
\* the handler runs to its end
DuplicateInsertsItems(ok) ==
  /\ \E c \in duplicateCall :
       /\ c.pc = "selectMenu"
       /\ IF c.sourceMenuItems # NULL /\ The(c.sourceMenuItems) # <<>>
          THEN LET rows == copiedItems(The(c.sourceMenuItems), The(c.createdEvent).id,
                                       menuIdsIssued) IN
               /\ menuIdsIssued + Len(rows) <= MaxMenuIds
               /\ menu_items' = IF ok THEN menu_items \o rows ELSE menu_items
               /\ menuIdsIssued' = IF ok THEN menuIdsIssued + Len(rows) ELSE menuIdsIssued
               /\ duplicateCall' = Some([c EXCEPT !.pc = "insertItems"])
               /\ UNCHANGED <<locationEvents, duplicateSourceEvent, duplicateEventDate,
                              duplicatingEvent, duplicateEventMessage, duplicateEventError>>
          ELSE /\ DuplicateDone(c)
               /\ UNCHANGED <<menu_items, menuIdsIssued>>
  /\ UNCHANGED <<event_rows, eventIdsIssued>>
  /\ UNCHANGED <<filterVars, orderVars, adminVars, geoVars, menuPageVars>>

\* the insert of the copies has settled; its result is not read
DuplicateResumes ==
  /\ \E c \in duplicateCall :
       /\ c.pc = "insertItems"
       /\ DuplicateDone(c)
  /\ UNCHANGED <<filterVars, orderVars, adminVars, geoVars, tableVars, menuPageVars>>

DuplicateDates == {"", Date2, Date3}

\* both admin pages loaded on the first event's menu and an empty second event
InitDuplicate ==
  /\ GeoIdle
  /\ FilterMounted /\ OrderIdle /\ AdminIdle
  /\ menu_items \in {<<FishPlate, Pie>>, <<Chowder>>}
  /\ event_rows = StoredEvents
  /\ menuIdsIssued = 0 /\ eventIdsIssued = 0
  /\ MenuPageLoaded
  /\ locationEvents = LoadLocationEvents(event_rows, "loc1")
  /\ duplicateSourceEvent = NULL /\ duplicateEventDate = ""
  /\ duplicatingEvent = FALSE
  /\ duplicateEventMessage = NULL /\ duplicateEventError = NULL
  /\ duplicateCall = NULL

NextDuplicate ==
  \/ \E ev \in Range(locationEvents) : openDuplicateEvent(ev)
  \/ \E value \in DuplicateDates : setDuplicateEventDate(value)
  \/ closeDuplicateEvent
  \/ \E ok \in BOOLEAN : handleDuplicateEventSubmit(ok)
  \/ \E ok \in BOOLEAN : DuplicateSelectsMenu(ok)
  \/ \E ok \in BOOLEAN : DuplicateInsertsItems(ok)
  \/ DuplicateResumes
  \/ \E eventId \in PageEventIds : openCopyMenu(eventId)
  \/ \E value \in PageEventIds \cup {""} : setCopyTargetEventId(value)
  \/ closeCopyMenu
  \/ \E ok \in BOOLEAN : handleCopyMenu(ok)
  \/ handleCopyMenuResumes

SpecDuplicate == InitDuplicate /\ [][NextDuplicate]_vars

(***************************************************************************)
(* lib/geo.ts: normalizeCityName and citiesMatch applied to city names as  *)
(* callers pass them.                                                      *)
(***************************************************************************)
Space == <<" ">>
Period == <<".">>
Louis == <<"l","o","u","i","s">>
StLouisTyped == <<"S","t",".">> \o Space \o <<"L","o","u","i","s">>
SaintLouisTyped == <<"S","a","i","n","t">> \o Space \o <<"L","o","u","i","s">>
LouisTyped == <<"L","o","u","i","s">>
KansasCity == <<"K","a","n","s","a","s">> \o Space \o <<"C","i","t","y">>
JeffersonCity == <<"J","e","f","f","e","r","s","o","n">> \o Space \o <<"C","i","t","y">>

\* the three ways of writing the k-th abbreviated word in front of a name
AbbrevForm(k) == replacements[k][1] \o Space \o Louis
AbbrevPeriodForm(k) == replacements[k][1] \o Period \o Space \o Louis
FullWordForm(k) == replacements[k][2] \o Space \o Louis
WordForms(k) == {AbbrevForm(k), AbbrevPeriodForm(k), FullWordForm(k)}

CityNames ==
  UNION {WordForms(k) : k \in DOMAIN replacements}
    \cup {StLouisTyped, SaintLouisTyped, LouisTyped, KansasCity, JeffersonCity,
          <<>>, Space}

CallNormalizeA ==
  /\ normA = NULL
  /\ normA' = Some(normalizeCityName(nameA))
  /\ UNCHANGED <<nameA, nameB, normB, matchAB, matchBA>>
  /\ UNCHANGED <<filterVars, orderVars, adminVars, menuVars,
                 pointVars, suggestVars, signupVars>>

CallNormalizeB ==
  /\ normB = NULL
  /\ normB' = Some(normalizeCityName(nameB))
  /\ UNCHANGED <<nameA, nameB, normA, matchAB, matchBA>>
  /\ UNCHANGED <<filterVars, orderVars, adminVars, menuVars,
                 pointVars, suggestVars, signupVars>>

CallCitiesMatchAB ==
  /\ matchAB = NULL
  /\ matchAB' = Some(citiesMatch(nameA, nameB))
  /\ UNCHANGED <<nameA, nameB, normA, normB, matchBA>>
  /\ UNCHANGED <<filterVars, orderVars, adminVars, menuVars,
                 pointVars, suggestVars, signupVars>>

CallCitiesMatchBA ==
  /\ matchBA = NULL
  /\ matchBA' = Some(citiesMatch(nameB, nameA))
  /\ UNCHANGED <<nameA, nameB, normA, normB, matchAB>>
  /\ UNCHANGED <<filterVars, orderVars, adminVars, menuVars,
                 pointVars, suggestVars, signupVars>>

InitCities ==
  /\ nameA \in CityNames /\ nameB \in CityNames
  /\ normA = NULL /\ normB = NULL /\ matchAB = NULL /\ matchBA = NULL
  /\ PointsIdle /\ SuggestIdle /\ SignupIdle
  /\ FilterMounted /\ OrderIdle /\ AdminIdle /\ MenuIdle

NextCities ==
  \/ CallNormalizeA
  \/ CallNormalizeB
  \/ CallCitiesMatchAB
  \/ CallCitiesMatchBA

SpecCities == InitCities /\ [][NextCities]_vars

(***************************************************************************)
(* lib/geo.ts: haversineMiles applied to pairs of points.                  *)
(***************************************************************************)
Latitudes == {-3387, 0, 3863, 3870, 4188}
Longitudes == {-9020, -8763, 0, 15121}
Points == [lat : Latitudes, lng : Longitudes]

CallHaversinePQ ==
  /\ milesPQ = NULL
  /\ milesPQ' = Some(haversineMiles(pointP.lat, pointP.lng, pointQ.lat, pointQ.lng))
  /\ UNCHANGED <<pointP, pointQ, milesQP, milesPP>>
  /\ UNCHANGED <<filterVars, orderVars, adminVars, menuVars,
                 cityVars, suggestVars, signupVars>>

CallHaversineQP ==
  /\ milesQP = NULL
  /\ milesQP' = Some(haversineMiles(pointQ.lat, pointQ.lng, pointP.lat, pointP.lng))
  /\ UNCHANGED <<pointP, pointQ, milesPQ, milesPP>>
  /\ UNCHANGED <<filterVars, orderVars, adminVars, menuVars,
                 cityVars, suggestVars, signupVars>>

CallHaversinePP ==
  /\ milesPP = NULL
  /\ milesPP' = Some(haversineMiles(pointP.lat, pointP.lng, pointP.lat, pointP.lng))
  /\ UNCHANGED <<pointP, pointQ, milesPQ, milesQP>>
  /\ UNCHANGED <<filterVars, orderVars, adminVars, menuVars,
                 cityVars, suggestVars, signupVars>>

InitHaversine ==
  /\ pointP \in Points /\ pointQ \in Points
  /\ milesPQ = NULL /\ milesQP = NULL /\ milesPP = NULL
  /\ CitiesIdle /\ SuggestIdle /\ SignupIdle
  /\ FilterMounted /\ OrderIdle /\ AdminIdle /\ MenuIdle

NextHaversine ==
  \/ CallHaversinePQ
  \/ CallHaversineQP
  \/ CallHaversinePP

SpecHaversine == InitHaversine /\ [][NextHaversine]_vars

(***************************************************************************)
(* lib/geo.ts: fetchCitySuggestions.  The lookups of one call are started  *)
(* together and settle one by one, in any order.                           *)
(***************************************************************************)
startsWith(s, prefix) == Len(prefix) <= Len(s) /\ SubSeq(s, 1, Len(prefix)) = prefix

toUpperCaseChar(c) ==
  IF c \in Range(LowerLetters) THEN UpperLetters[IndexIn(LowerLetters, c)] ELSE c
toUpperCase(s) == [i \in DOMAIN s |-> toUpperCaseChar(s[i])]

\* a.localeCompare(b, undefined, { sensitivity: "base" }): -1, 0 or 1; letters
\* compare without regard to case, space and punctuation sort before them
CollationOrder == <<" ", "'", ".">> \o LowerLetters
CollationRank(c) ==
  IF toLowerCaseChar(c) \in Range(CollationOrder)
  THEN IndexIn(CollationOrder, toLowerCaseChar(c)) ELSE 0
RECURSIVE localeCompare(_, _)
localeCompare(a, b) ==
  IF a = <<>> /\ b = <<>> THEN 0
  ELSE IF a = <<>> THEN -1
  ELSE IF b = <<>> THEN 1
  ELSE IF CollationRank(Head(a)) < CollationRank(Head(b)) THEN -1
  ELSE IF CollationRank(Head(a)) > CollationRank(Head(b)) THEN 1
  ELSE localeCompare(Tail(a), Tail(b))

\* an excerpt of MAJOR_MO_IL_CITIES, in the order of the list
Alton == <<"A","l","t","o","n">>
SaintCharles == <<"S","a","i","n","t">> \o Space \o <<"C","h","a","r","l","e","s">>
SaintPeters == <<"S","a","i","n","t">> \o Space \o <<"P","e","t","e","r","s">>
Springfield == <<"S","p","r","i","n","g","f","i","e","l","d">>
Suggestion(city, stateAbbr) == [city |-> city, stateAbbr |-> stateAbbr]
MAJOR_MO_IL_CITIES ==
  << Suggestion(Alton, IL), Suggestion(SaintCharles, MO), Suggestion(SaintLouis, MO),
     Suggestion(Springfield, MO), Suggestion(Troy, MO) >>

\* pushes v unless the list holds it already (a Set keeps insertion order)
SetAdd(list, v) == IF v \in Range(list) THEN list ELSE Append(list, v)

expandMap(p) ==
  IF \E k \in DOMAIN replacements :
       p = replacements[k][1] \/ p = replacements[k][1] \o Period
  THEN Some(replacements[CHOOSE k \in DOMAIN replacements :
                           p = replacements[k][1] \/ p = replacements[k][1] \o Period][2])
  ELSE NULL

abbreviateMap(p) ==
  IF \E k \in DOMAIN replacements : p = replacements[k][2]
  THEN Some(replacements[CHOOSE k \in DOMAIN replacements : p = replacements[k][2]][1])
  ELSE NULL

Fallon == <<"f","a","l","l","o","n">>
getSearchVariations(partial) ==
  LET p  == toLowerCase(trim(partial))
      v1 == <<p>>
      v2 == IF expandMap(p) # NULL THEN SetAdd(v1, The(expandMap(p))) ELSE v1
      v3 == IF abbreviateMap(p) # NULL THEN SetAdd(v2, The(abbreviateMap(p))) ELSE v2
      v4 == IF p = Fallon THEN SetAdd(v3, <<"o">> \o Fallon) ELSE v3
      v5 == IF p = <<"o">> \o Fallon \/ p = <<"o","'">> \o Fallon
            THEN SetAdd(v4, Fallon) ELSE v4
      v6 == IF startsWith(p, <<"s","p","r","i","n","g">>) /\ Len(p) < 10
            THEN SetAdd(v5, toLowerCase(Springfield)) ELSE v5
      v7 == IF startsWith(p, <<"c","o","l","u","m","b">>) /\ Len(p) < 8
            THEN SetAdd(v6, <<"c","o","l","u","m","b","i","a">>) ELSE v6
      v8 == IF startsWith(p, toLowerCase(<<"J","e","f","f","e","r","s","o","n">>)) /\ Len(p) < 12
            THEN SetAdd(v7, toLowerCase(JeffersonCity)) ELSE v7
      v9 == IF startsWith(p, <<"k","a","n","s","a","s">>) /\ Len(p) < 10
            THEN SetAdd(v8, toLowerCase(KansasCity)) ELSE v8
  IN IF p = <<>> THEN <<>> ELSE v9

cityMatchesQuery(city, query) ==
  LET normCity  == normalizeCityName(city)
      normQuery == normalizeCityName(query)
  IN IF normCity = <<>> \/ normQuery = <<>> THEN FALSE
     ELSE includes(normCity, normQuery) \/ includes(normQuery, normCity)

SuggestionKey(s) == <<toLowerCase(s.city), s.stateAbbr>>

\* addUnique: seen is the set of the keys of results
addUnique(results, s) ==
  IF \E r \in Range(results) : SuggestionKey(r) = SuggestionKey(s)
  THEN results ELSE Append(results, s)

RECURSIVE addAllUnique(_, _)
addAllUnique(results, list) ==
  IF list = <<>> THEN results
  ELSE addAllUnique(addUnique(results, Head(list)), Tail(list))

fromHardcoded(stateUpper, partial) ==
  LET Keep(c) == c.stateAbbr = stateUpper /\ cityMatchesQuery(c.city, partial)
  IN SelectSeq(MAJOR_MO_IL_CITIES, Keep)

\* What one lookup's promise resolves to.  A response is a network error, a
\* non-success status, or a body with its "state abbreviation" and place names.
NetworkError == [kind |-> "networkError"]
NotOk == [kind |-> "notOk"]
Body(state, places) == [kind |-> "ok", state |-> state, places |-> places]

RECURSIVE PlacesOf(_, _)
PlacesOf(names, stateFromApi) ==
  IF names = <<>> THEN <<>>
  ELSE IF trim(Head(names)) # <<>>
       THEN <<Suggestion(trim(Head(names)), stateFromApi)>> \o PlacesOf(Tail(names), stateFromApi)
       ELSE PlacesOf(Tail(names), stateFromApi)

LookupResult(response, stateAbbr, stateUpper) ==
  IF response.kind # "ok" THEN <<>>
  ELSE LET stateFromApi == toUpperCase(Coalesce(response.state, stateAbbr)) IN
       IF stateFromApi # stateUpper THEN <<>>
       ELSE PlacesOf(response.places, stateFromApi)

\* results.sort(localeCompare): a stable insertion sort
RECURSIVE InsertByCity(_, _)
InsertByCity(sorted, s) ==
  IF sorted = <<>> THEN <<s>>
  ELSE IF localeCompare(s.city, Head(sorted).city) < 0 THEN <<s>> \o sorted
  ELSE <<Head(sorted)>> \o InsertByCity(Tail(sorted), s)

RECURSIVE SortByCity(_)
SortByCity(list) ==
  IF list = <<>> THEN <<>>
  ELSE InsertByCity(SortByCity(SubSeq(list, 1, Len(list) - 1)), list[Len(list)])

\* the loop over apiResults, then the sort
RECURSIVE AddBatches(_, _, _)
AddBatches(results, batches, partial) ==
  IF batches = <<>> THEN results
  ELSE LET Matches(s) == cityMatchesQuery(s.city, partial)
       IN AddBatches(addAllUnique(results, SelectSeq(Head(batches), Matches)),
                     Tail(batches), partial)

Aggregate(results, batches, partial) == SortByCity(AddBatches(results, batches, partial))

\* the call up to its await of Promise.all: either it returns [] at once, or it
\* has collected the hardcoded matches and started one lookup per variation
fetchCitySuggestionsCalled(stateInput, partialCity) ==
  /\ suggestCall = NULL \/ \E c \in suggestCall : c.pc = "returned"
  /\ LET stateAbbr == getStateAbbr(stateInput)
         partial   == trim(partialCity)
     IN IF stateAbbr = <<>> \/ Len(stateAbbr) < 2 \/ Len(partial) < 2
        THEN /\ suggestResult' = Some(<<>>)
             /\ suggestCall' = NULL
        ELSE /\ suggestCall' =
                  Some([pc |-> "awaitAll",
                        stateAbbr |-> stateAbbr,
                        stateUpper |-> toUpperCase(stateAbbr),
                        partial |-> partial,
                        results |-> addAllUnique(<<>>, fromHardcoded(toUpperCase(stateAbbr), partial)),
                        variations |-> getSearchVariations(partial),
                        responses |-> [i \in DOMAIN getSearchVariations(partial) |-> NULL],
                        apiResults |-> [i \in DOMAIN getSearchVariations(partial) |-> NULL]])
             /\ suggestResult' = NULL
  /\ UNCHANGED <<filterVars, orderVars, adminVars, menuVars,
                 cityVars, pointVars, signupVars>>

\* the i-th lookup's promise settles, with the list its async function returns
LookupSettles(i, response) ==
  /\ suggestCall # NULL
  /\ LET c == The(suggestCall) IN
     /\ c.pc = "awaitAll"
     /\ i \in DOMAIN c.variations
     /\ c.apiResults[i] = NULL
     /\ suggestCall' =
          Some([c EXCEPT !.responses[i] = Some(response),
                         !.apiResults[i] = Some(LookupResult(response, c.stateAbbr, c.stateUpper))])
  /\ UNCHANGED suggestResult
  /\ UNCHANGED <<filterVars, orderVars, adminVars, menuVars,
                 cityVars, pointVars, signupVars>>

\* fetchCitySuggestions without the try/catch around each lookup: a failed
\* lookup rejects Promise.all and nothing is returned
fetchCitySuggestionsReturns_FailFast ==
  /\ suggestCall # NULL
  /\ LET c == The(suggestCall) IN
     /\ c.pc = "awaitAll"
     /\ \A i \in DOMAIN c.variations : c.apiResults[i] # NULL
     /\ suggestResult' =
          IF \E i \in DOMAIN c.variations : The(c.responses[i]).kind # "ok"
          THEN Some(<<>>)
          ELSE Some(Aggregate(c.results,
                              [i \in DOMAIN c.variations |-> The(c.apiResults[i])],
                              c.partial))
     /\ suggestCall' = Some([c EXCEPT !.pc = "returned"])
  /\ UNCHANGED <<filterVars, orderVars, adminVars, menuVars,
                 cityVars, pointVars, signupVars>>

\* Promise.all resolves once every lookup has settled; the call aggregates,
\* sorts and returns.  The record of the call is kept, marked as returned.
fetchCitySuggestionsReturns ==
  /\ suggestCall # NULL
  /\ LET c == The(suggestCall) IN
     /\ c.pc = "awaitAll"
     /\ \A i \in DOMAIN c.variations : c.apiResults[i] # NULL
     /\ suggestResult' =
          Some(Aggregate(c.results, [i \in DOMAIN c.variations |-> The(c.apiResults[i])],
                         c.partial))
     /\ suggestCall' = Some([c EXCEPT !.pc = "returned"])
  /\ UNCHANGED <<filterVars, orderVars, adminVars, menuVars,
                 cityVars, pointVars, signupVars>>

StateInputs == {MO, <<"i","l">>, <<>>}
PartialInputs ==
  {<<"S","t">>, <<"s","a","i","n","t">>, <<"S","p","r","i","n","g">>, <<"T","r">>, <<"T">>}
Responses ==
  {NetworkError, NotOk,
   Body(Some(IL), <<Troy>>),
   Body(Some(MO), <<SaintPeters, SaintLouis>>),
   Body(NULL, <<Troy \o Space, Springfield>>),
   Body(Some(MO), <<>>)}

InitSuggest ==
  /\ suggestCall = NULL /\ suggestResult = NULL
  /\ CitiesIdle /\ PointsIdle /\ SignupIdle
  /\ FilterMounted /\ OrderIdle /\ AdminIdle /\ MenuIdle

NextSuggest ==
  \/ \E stateInput \in StateInputs, partialCity \in PartialInputs :
       fetchCitySuggestionsCalled(stateInput, partialCity)
  \/ \E i \in 1..2, response \in Responses : LookupSettles(i, response)
  \/ fetchCitySuggestionsReturns

SpecSuggest == InitSuggest /\ [][NextSuggest]_vars

(***************************************************************************)
(* AdminDashboard signup form: the state and city inputs and the city      *)
(* autocomplete effect.                                                    *)
(***************************************************************************)
\* what a call of fetchCitySuggestions returns when its lookups were answered
\* by responses (one per variation)
fetchCitySuggestions(stateInput, partialCity, responses) ==
  LET stateAbbr == getStateAbbr(stateInput)
      partial   == trim(partialCity)
  IN IF stateAbbr = <<>> \/ Len(stateAbbr) < 2 \/ Len(partial) < 2 THEN <<>>
     ELSE Aggregate(addAllUnique(<<>>, fromHardcoded(toUpperCase(stateAbbr), partial)),
                    [i \in DOMAIN getSearchVariations(partial) |->
                       LookupResult(responses[i], stateAbbr, toUpperCase(stateAbbr))],
                    partial)

\* the cleanup of the effect's previous run sets its cancelled flag and clears
\* its timeout; the new run empties the suggestions or arms a timeout
SuggestionsEffect ==
  /\ suggestFetches' = {[f EXCEPT !.cancelled = TRUE] : f \in suggestFetches}
  /\ IF Len(trim(signupState')) < 2 \/ Len(trim(signupCity')) < 2
     THEN /\ citySuggestions' = <<>>
          /\ suggestionsQuery' = NULL
          /\ suggestTimer' = NULL
     ELSE /\ suggestTimer' = Some([state |-> signupState', city |-> signupCity'])
          /\ UNCHANGED <<citySuggestions, suggestionsQuery>>

\* onChange of the state input
setState(value) ==
  /\ sliceTo(toUpperCase(value), 2) # signupState
  /\ signupState' = sliceTo(toUpperCase(value), 2)
  /\ UNCHANGED <<signupCity, showCitySuggestions>>
  /\ SuggestionsEffect
  /\ UNCHANGED <<filterVars, orderVars, adminVars, menuVars,
                 cityVars, pointVars, suggestVars>>

\* onChange of the city input
setCity(value) ==
  /\ value # signupCity
  /\ signupCity' = value
  /\ showCitySuggestions' = TRUE
  /\ UNCHANGED signupState
  /\ SuggestionsEffect
  /\ UNCHANGED <<filterVars, orderVars, adminVars, menuVars,
                 cityVars, pointVars, suggestVars>>

\* onFocus of the city input
focusCity ==
  /\ trim(signupCity) # <<>> /\ Len(trim(signupState)) >= 2
  /\ ~showCitySuggestions
  /\ showCitySuggestions' = TRUE
  /\ UNCHANGED <<signupState, signupCity, citySuggestions, suggestionsQuery,
                 suggestTimer, suggestFetches>>
  /\ UNCHANGED <<filterVars, orderVars, adminVars, menuVars,
                 cityVars, pointVars, suggestVars>>

\* a mousedown outside the city field
handleClickOutside ==
  /\ showCitySuggestions
  /\ showCitySuggestions' = FALSE
  /\ UNCHANGED <<signupState, signupCity, citySuggestions, suggestionsQuery,
                 suggestTimer, suggestFetches>>
  /\ UNCHANGED <<filterVars, orderVars, adminVars, menuVars,
                 cityVars, pointVars, suggestVars>>

\* a click on the i-th suggestion of the displayed list
selectSuggestion(i) ==
  /\ showCitySuggestions
  /\ i \in DOMAIN citySuggestions
  /\ signupCity' = citySuggestions[i].city
  /\ signupState' = citySuggestions[i].stateAbbr
  /\ showCitySuggestions' = FALSE
  /\ IF signupCity' = signupCity /\ signupState' = signupState
     THEN UNCHANGED <<citySuggestions, suggestionsQuery, suggestTimer, suggestFetches>>
     ELSE SuggestionsEffect
  /\ UNCHANGED <<filterVars, orderVars, adminVars, menuVars,
                 cityVars, pointVars, suggestVars>>

\* the timeout fires: its closure awaits fetchCitySuggestions(state, city)
SuggestTimerFires ==
  /\ suggestTimer # NULL
  /\ Cardinality(suggestFetches) < MaxInFlight
  /\ suggestFetches' = suggestFetches \cup
       {[state |-> The(suggestTimer).state, city |-> The(suggestTimer).city,
         cancelled |-> FALSE]}
  /\ suggestTimer' = NULL
  /\ UNCHANGED <<signupState, signupCity, citySuggestions, showCitySuggestions,
                 suggestionsQuery>>
  /\ UNCHANGED <<filterVars, orderVars, adminVars, menuVars,
                 cityVars, pointVars, suggestVars>>

\* fetchCitySuggestions returns to the closure f
SuggestionsArrive(f, response) ==
  /\ f \in suggestFetches
  /\ suggestFetches' = suggestFetches \ {f}
  /\ IF f.cancelled
     THEN UNCHANGED <<citySuggestions, suggestionsQuery>>
     ELSE /\ citySuggestions' =
               fetchCitySuggestions(f.state, f.city,
                 [i \in DOMAIN getSearchVariations(trim(f.city)) |-> response])
          /\ suggestionsQuery' = Some([state |-> f.state, city |-> f.city])
  /\ UNCHANGED <<signupState, signupCity, showCitySuggestions, suggestTimer>>
  /\ UNCHANGED <<filterVars, orderVars, adminVars, menuVars,
                 cityVars, pointVars, suggestVars>>

SignupStateInputs == {<<>>, <<"m">>, <<"m","o">>, <<"I","L">>}
SignupCityInputs == {<<>>, <<"S">>, <<"S","t">>, <<"T","r">>}
SignupResponses == {NetworkError, Body(NULL, <<SaintPeters, Troy>>)}

InitSignup ==
  /\ SignupIdle
  /\ CitiesIdle /\ PointsIdle /\ SuggestIdle
  /\ FilterMounted /\ OrderIdle /\ AdminIdle /\ MenuIdle

NextSignup ==
  \/ \E value \in SignupStateInputs : setState(value)
  \/ \E value \in SignupCityInputs : setCity(value)
  \/ focusCity
  \/ handleClickOutside
  \/ \E i \in 1..3 : selectSuggestion(i)
  \/ SuggestTimerFires
  \/ \E f \in suggestFetches, response \in SignupResponses : SuggestionsArrive(f, response)

SpecSignup == InitSignup /\ [][NextSignup]_vars

(***************************************************************************)
(* Claims about the memo.  They state the displayed list from the events,  *)
(* their stored coordinates and the selected options directly.             *)
(***************************************************************************)
\* the radius the within-miles select shows for its value, 0 for "Show all"
SelectedMiles ==
  CASE withinMiles = <<"1","0">> -> 10
    [] withinMiles = <<"2","5">> -> 25
    [] withinMiles = <<"5","0">> -> 50
    [] withinMiles = <<"1","0","0">> -> 100
    [] OTHER -> 0

HasStoredCoords(e) ==
  e.location # NULL /\ The(e.location).lat # NULL /\ The(e.location).lng # NULL

\* distance of an event with stored coordinates from the resolved origin
MilesFromOrigin(e) ==
  haversineMiles(The(originCoords).lat, The(originCoords).lng,
                 The(The(e.location).lat), The(The(e.location).lng))

PassesDate(e) == dateFilter = "" \/ e.event_date = dateFilter

PassesRadius(e) ==
  originCoords = NULL \/ SelectedMiles = 0
    \/ (HasStoredCoords(e) /\ MilesFromOrigin(e) <= SelectedMiles * 100)

Displayed == {filteredAndSortedEvents[i] : i \in DOMAIN filteredAndSortedEvents}
NoEventTwice == Cardinality(Displayed) = Len(filteredAndSortedEvents)
Input == {events[i] : i \in DOMAIN events}
IndexOfEvent(e) == CHOOSE i \in DOMAIN events : events[i] = e

\* C1: with the origin resolved and a radius N > 0 selected, the displayed list
\* holds exactly the date-filtered events that have stored coordinates and lie
\* within N miles of the origin; an event without stored coordinates is excluded.
C1_RadiusFilterExact ==
  (rendered /\ originCoords # NULL /\ SelectedMiles > 0) =>
    /\ Displayed = { e \in Input : PassesDate(e) /\ HasStoredCoords(e)
                                     /\ MilesFromOrigin(e) <= SelectedMiles * 100 }
    /\ NoEventTwice
    /\ \A e \in Displayed : HasStoredCoords(e)

C1_Witness ==
  /\ rendered /\ originCoords # NULL /\ SelectedMiles = 10
  /\ Displayed # {}
  /\ \E e \in Input : PassesDate(e) /\ ~HasStoredCoords(e) /\ e \notin Displayed
  /\ \E e \in Input : PassesDate(e) /\ HasStoredCoords(e) /\ e \notin Displayed

\* the distance an event sorts by: infinitely far without stored coordinates
SortKey(e) == IF HasStoredCoords(e) THEN MilesFromOrigin(e) ELSE Infinity

\* C2: with the origin resolved the displayed list is the stable sort of the
\* remaining events by ascending distance: distances are non-decreasing, events
\* without coordinates follow every event with coordinates, and events at the
\* same distance (two events without coordinates included) keep their original
\* relative order.
C2_StableDistanceSort ==
  (rendered /\ originCoords # NULL) =>
    /\ Displayed = { e \in Input : PassesDate(e) /\ PassesRadius(e) }
    /\ NoEventTwice
    /\ \A i, j \in DOMAIN filteredAndSortedEvents :
         i < j =>
           LET a == filteredAndSortedEvents[i]
               b == filteredAndSortedEvents[j]
           IN /\ SortKey(a) <= SortKey(b)
              /\ (~HasStoredCoords(a) => ~HasStoredCoords(b))
              /\ (SortKey(a) = SortKey(b) => IndexOfEvent(a) < IndexOfEvent(b))

C2_Witness ==
  /\ rendered /\ originCoords # NULL
  /\ Len(filteredAndSortedEvents) = 3
  /\ filteredAndSortedEvents # events
  /\ HasStoredCoords(filteredAndSortedEvents[1])
  /\ SortKey(filteredAndSortedEvents[1]) = SortKey(filteredAndSortedEvents[2])
  /\ ~HasStoredCoords(filteredAndSortedEvents[3])

\* C3: with a date filter set, only events of that date are displayed and every
\* input event of that date that the radius filter keeps is displayed; with no
\* date filter no event is dropped for its date.  The date filter comes first:
\* distances are computed for the date-filtered events only.
C3_DateFilterFirst ==
  rendered =>
    /\ \A e \in Displayed : PassesDate(e)
    /\ \A e \in Input : (PassesDate(e) /\ PassesRadius(e)) => e \in Displayed
    /\ Displayed \subseteq Input
    /\ originCoords # NULL => DOMAIN distances = { e.id : e \in { x \in Input : PassesDate(x) } }

C3_Witness ==
  /\ rendered /\ dateFilter = Date1 /\ originCoords # NULL /\ SelectedMiles = 50
  /\ \E e \in Input : e.event_date = Date2
  /\ \E e \in Input : e.event_date = Date1 /\ e \in Displayed
  /\ \E e \in Input : e.event_date = Date1 /\ e \notin Displayed

\* the sub-sequence of the events that pass the date filter, in their order
RECURSIVE KeepDate(_)
KeepDate(evs) ==
  IF evs = <<>> THEN <<>>
  ELSE IF PassesDate(Head(evs)) THEN <<Head(evs)>> \o KeepDate(Tail(evs))
  ELSE KeepDate(Tail(evs))

\* C5: with the origin coordinates null there is no distance sorting and no
\* radius filtering: whatever radius is selected, the displayed list is the
\* date-filtered events in their original order.
C5_NullOriginKeepsOrder ==
  (rendered /\ originCoords = NULL) =>
    /\ filteredAndSortedEvents = KeepDate(events)
    /\ DOMAIN distances = {}

C5_Witness ==
  /\ rendered /\ originCoords = NULL /\ SelectedMiles = 10
  /\ Len(filteredAndSortedEvents) = 2
  /\ Len(events) = 3
  /\ ~HasStoredCoords(filteredAndSortedEvents[1])
  /\ HasStoredCoords(filteredAndSortedEvents[2])

(***************************************************************************)
(* Claims about origin resolution.                                         *)
(***************************************************************************)
TroyIL == <<"T","r","o","y",","," ","I","L">>
Zip63101 == <<"6","3","1","0","1">>

CountDigits(s) == Cardinality({i \in DOMAIN s : s[i] \in DigitChars})

\* a step in which the debounce timer fires (an edit that clears it changes an input)
TimerFireStep ==
  timer # NULL /\ timer' = NULL /\ cityQuery' = cityQuery /\ zipQuery' = zipQuery

\* a step in which an input is edited
EditStep == cityQuery' # cityQuery \/ zipQuery' # zipQuery

\* C4: whenever both the city and the zip input are empty, the selected radius
\* has no effect on the displayed list: it is the date-filtered events in their
\* original order, whatever edits, timer firings and lookup completions came before.
C4_RadiusInertWithoutOrigin ==
  (cityQuery = <<>> /\ zipQuery = <<>>) => filteredAndSortedEvents = KeepDate(events)

\* The part of C4 that is about the radius alone: with both inputs empty, no
\* date-filtered event is missing from the displayed list.
C4_RadiusDropsNothing ==
  (cityQuery = <<>> /\ zipQuery = <<>>) =>
    Displayed = {events[i] : i \in {j \in DOMAIN events : PassesDate(events[j])}}

\* C6: the postal code takes precedence over the city text.  A lookup is a
\* postal-code lookup exactly when the zip input held at least 5 digits, and then
\* it is the only lookup the call makes; the city lookup is made only with fewer
\* than 5 digits.  When a postal-code lookup settles, the origin is that lookup's
\* result: null when it failed, whatever city was entered.
C6_ZipTakesPrecedence ==
  [][ /\ \A req \in DOMAIN inflight' :
           /\ (CountDigits(req.zipQuery) >= 5) <=> (req.kind = "zip")
           /\ req.kind = "zip" => (CountDigits(req.zip) = Len(req.zip) /\ Len(req.zip) >= 5)
      /\ TimerFireStep =>
           IF CountDigits(The(timer).zipQuery) >= 5
           THEN \E req \in DOMAIN inflight' :
                  /\ req.kind = "zip"
                  /\ req.zipQuery = The(timer).zipQuery
                  /\ inflight' = BagAdd(inflight, req)
           ELSE \A req \in DOMAIN inflight' :
                  req.kind = "zip" => (req \in DOMAIN inflight /\ inflight'[req] = inflight[req])
      /\ \A req \in DOMAIN inflight :
           (req.kind = "zip" /\ inflight' = BagRemove(inflight, req)) =>
             /\ originCoords' \in {NULL, ZippopotamZip(req.zip)}
             /\ originCoords' = NULL => geoError' = Some(GeoErrorZip)
    ]_vars

C6_Witness ==
  /\ cityQuery = TroyIL /\ zipQuery = Zip63101
  /\ timer = NULL /\ inflight = EmptyBag
  /\ originCoords = NULL /\ geoError = Some(GeoErrorZip)

\* the city of a query: the text before its first comma when that comma is not
\* the first character, else the whole query
QueryCity(cityTrimmed) ==
  IF \E i \in 2..Len(cityTrimmed) : cityTrimmed[i] = ","
  THEN trim(SubSeq(cityTrimmed, 1,
         (CHOOSE i \in 2..Len(cityTrimmed) :
            cityTrimmed[i] = "," /\ \A j \in 1..(i - 1) : cityTrimmed[j] # ",") - 1))
  ELSE cityTrimmed

\* the query names no state: no comma after its first character before which
\* there is none, or only white space after that comma
NoStateAfterComma(cityTrimmed) ==
  \/ cityTrimmed # <<>> /\ cityTrimmed[1] = ","
  \/ \A i \in DOMAIN cityTrimmed : cityTrimmed[i] # ","
  \/ \E i \in 2..Len(cityTrimmed) :
       /\ cityTrimmed[i] = "," /\ \A j \in 1..(i - 1) : cityTrimmed[j] # ","
       /\ \A j \in (i + 1)..Len(cityTrimmed) : cityTrimmed[j] \in SpaceChars

\* no event's city matches the query, or the first that does has no state
NoStateFromEvents(city) ==
  LET matching == {i \in DOMAIN events :
                     events[i].location # NULL /\ citiesMatch(trim(The(events[i].location).city), city)}
  IN \/ matching = {}
     \/ \E i \in matching :
          /\ \A j \in matching : i <= j
          /\ trim(The(events[i].location).state) = <<>>

HintCase(closure) ==
  /\ CountDigits(closure.zipQuery) < 5
  /\ trim(closure.cityQuery) # <<>>
  /\ NoStateAfterComma(trim(closure.cityQuery))
  /\ NoStateFromEvents(QueryCity(trim(closure.cityQuery)))

\* C7: for a city query with no state after a comma and no state to be had from
\* the events, resolveOrigin starts no lookup, sets the origin to null, sets the
\* hint and clears the loading flag; and the next edit of an input resets the
\* origin (both inputs blank) or arms the timer for a new resolution.
C7_NoStateGivesHint ==
  [][ /\ (TimerFireStep /\ HintCase(The(timer))) =>
           /\ inflight' = inflight
           /\ originCoords' = NULL
           /\ geoError' = Some(GeoErrorAddState)
           /\ geoLoading' = FALSE
      /\ (geoError = Some(GeoErrorAddState) /\ EditStep) =>
           IF CountDigits(zipQuery') = 0 /\ trim(cityQuery') = <<>>
           THEN timer' = NULL /\ originCoords' = NULL /\ geoError' = NULL
           ELSE timer' = Some([zipQuery |-> zipQuery', cityQuery |-> cityQuery'])
    ]_vars

C7_Witness ==
  /\ cityQuery = Troy /\ CountDigits(zipQuery) < 5
  /\ geoError = Some(GeoErrorAddState) /\ originCoords = NULL
  /\ timer = NULL /\ inflight = EmptyBag /\ ~geoLoading

C7_WitnessNoMatch ==
  /\ cityQuery = <<"N","o","w","h","e","r","e",",">>
  /\ geoError = Some(GeoErrorAddState) /\ originCoords = NULL /\ timer = NULL

(***************************************************************************)
(* Order placement.                                                        *)
(***************************************************************************)
RowsOf(orderId) == SelectSeq(order_items, LAMBDA r : r.order_id = orderId)
OrderRowsOf(orderId) == {k \in DOMAIN orders : orders[k].id = orderId}
Positive(items) == {k \in DOMAIN items : items[k].quantity > 0}
\* the j-th item of positive quantity
NthPositive(items, j) ==
  CHOOSE k \in Positive(items) : Cardinality({i \in Positive(items) : i < k}) = j - 1
RowFor(orderId, item) ==
  [order_id |-> orderId, menu_item_id |-> item.menu_item_id, quantity |-> item.quantity,
   item_name |-> item.item_name, item_price |-> item.item_price]
OrderInsertFailed(c) == c.pc # "insertOrder" /\ c.order = NULL

\* C8: once placeOrder has inserted the order row and its item rows, the step in
\* which sendOrderConfirmation settles returns success with that order whatever
\* the email's result is -- sent, a send error, or "Email not configured" -- and
\* leaves the orders and order_items tables as they were.
C8_EmailOutcomeIgnored ==
  [][\A c \in call :
       (c.pc = "sendEmail" /\ call' # call)
       => /\ orders' = orders
          /\ order_items' = order_items
          /\ OrderRowsOf(The(c.order).id) # {}
          /\ Len(RowsOf(The(c.order).id)) = Cardinality(Positive(c.items))
          /\ call' # NULL
          /\ \A d \in call' : /\ d.pc = "returned"
                              /\ d.emailResult # NULL
                              /\ d.result = Some(Success(The(c.order)))]_vars

\* placeOrder has returned success after an email that was not sent, with item
\* rows inserted
C8_Witness ==
  \E c \in call :
    /\ c.pc = "returned"
    /\ c.emailResult = Some([ok |-> FALSE, error |-> Some(EmailNotConfigured)])
    /\ The(c.result).success
    /\ RowsOf(The(c.order).id) # <<>>

\* C9: when placeOrder has got past its inserts, order_items holds for its order
\* one row for each submitted item of quantity > 0, in their order, and no other
\* row; when no submitted item has a positive quantity the order row is there,
\* no order_items insert was made, and placeOrder returns success.
C9_PositiveItemsPersisted ==
  \A c \in call :
    LET positive == Positive(c.items) IN
    /\ (c.pc \in {"fetchEvent", "sendEmail"} \/ (c.pc = "returned" /\ The(c.result).success))
       => LET id == The(c.order).id
              rows == RowsOf(id)
          IN /\ Cardinality(OrderRowsOf(id)) = 1
             /\ Len(rows) = Cardinality(positive)
             /\ \A j \in DOMAIN rows : rows[j] = RowFor(id, c.items[NthPositive(c.items, j)])
    /\ (positive = {} /\ c.order # NULL)
       => /\ Cardinality(OrderRowsOf(The(c.order).id)) = 1
          /\ c.pc # "insertItems"
          /\ c.itemsInserts = 0
          /\ RowsOf(The(c.order).id) = <<>>
          /\ c.pc = "returned" => The(c.result).success

\* placeOrder has returned success for items of which one has quantity 0 and
\* another a positive quantity
C9_Witness ==
  \E c \in call :
    /\ c.pc = "returned"
    /\ The(c.result).success
    /\ \E k \in DOMAIN c.items : c.items[k].quantity = 0
    /\ Positive(c.items) # {}
    /\ RowsOf(The(c.order).id) # <<>>

\* placeOrder has returned success for items none of which has a positive quantity
C9_WitnessNonePositive ==
  \E c \in call :
    /\ c.pc = "returned"
    /\ The(c.result).success
    /\ c.items # <<>>
    /\ Positive(c.items) = {}
    /\ Len(orders) = 1 /\ order_items = <<>>

\* C10: the step in which the orders insert fails ends placeOrder: it returns
\* success false with an error message, no table changes and no confirmation
\* email is sent, then or later; and when handleSubmit resumes with that result
\* the form shows the message, is not submitting, shows no confirmation and
\* keeps what the customer entered.
C10_OrderInsertFailureAborts ==
  [][/\ \A c \in call : \A d \in call' :
          (c.pc = "insertOrder" /\ OrderInsertFailed(d))
          => /\ d.pc = "returned"
             /\ d.result # NULL
             /\ ~The(d.result).success
             /\ The(d.result).error # NULL
             /\ The(The(d.result).error) # ""
             /\ d.itemsInserts = 0 /\ d.emailResult = NULL
             /\ UNCHANGED <<orders, order_items, confirmations>>
     /\ \A c \in call :
          (OrderInsertFailed(c) /\ call' # call)
          => /\ call' = NULL
             /\ UNCHANGED <<orders, order_items, confirmations>>
             /\ c.caller = "form"
                => /\ submitError' = The(c.result).error
                   /\ submitting' = FALSE
                   /\ confirmation' = NULL
                   /\ UNCHANGED <<name, email, orderType, quantities>>]_vars

\* the form after an order insert that failed: the error shown, the form editable
C10_Witness ==
  /\ submitError = Some(DbError)
  /\ ~submitting
  /\ confirmation = NULL
  /\ call = NULL
  /\ orders = <<>> /\ order_items = <<>> /\ confirmations = <<>>
  /\ trim(name) # <<>> /\ trim(email) # <<>>

\* C11: order placement is not atomic.  The step in which the order_items insert
\* fails, after the orders insert succeeded, returns success false with the
\* insert's error; the order row stays in orders with no item rows (nothing is
\* rolled back), no confirmation email is sent, and placeOrder does nothing more.
C11_NoRollback ==
  [][/\ \A c \in call : \A d \in call' :
          (c.pc = "insertItems" /\ d # c /\ order_items' = order_items)
          => /\ d.pc = "returned"
             /\ d.result = Some(Failure(DbError))
             /\ orders' = orders
             /\ Cardinality(OrderRowsOf(The(c.order).id)) = 1
             /\ RowsOf(The(c.order).id) = <<>>
             /\ d.emailResult = NULL
             /\ confirmations' = confirmations
     /\ \A c \in call :
          (c.pc = "returned" /\ ~The(c.result).success /\ call' # call)
          => /\ call' = NULL
             /\ UNCHANGED <<orders, order_items, confirmations>>]_vars

\* placeOrder has returned the failure of its order_items insert: the order row
\* is there without item rows
C11_Witness ==
  \E c \in call :
    /\ c.pc = "returned"
    /\ c.itemsInserts = 1
    /\ c.result = Some(Failure(DbError))
    /\ Positive(c.items) # {}
    /\ Cardinality(OrderRowsOf(The(c.order).id)) = 1
    /\ RowsOf(The(c.order).id) = <<>>
    /\ confirmations = <<>>

(***************************************************************************)
(* The admin orders page.                                                  *)
(***************************************************************************)
DisplayedStatus(orderId) ==
  {pageOrders[k].status : k \in {j \in DOMAIN pageOrders : pageOrders[j].id = orderId}}
NotifyCallsInFlight(bag) == {c \in DOMAIN bag : c.pc = "notify"}
EmailSupplied(row) == row.customer_email # NULL /\ trim(The(row.customer_email)) # <<>>

\* C12: a step that makes an order's persisted status ready shows it as ready and
\* calls sendOrderReady, once and with the order's email, exactly when the order
\* has a non-blank customer email; sendOrderReady is called in no other way than
\* by a status set to ready; and the step in which the notification settles,
\* sent or not, changes neither the persisted nor the displayed statuses.
C12_ReadyNotifiesIffEmail ==
  [][/\ \A k \in DOMAIN orders :
          (orders[k].status # "ready" /\ orders'[k].status = "ready")
          => /\ DisplayedStatus(orders[k].id)' = {"ready"}
             /\ IF EmailSupplied(orders[k])
                THEN notifications' = Append(notifications,
                                             [to |-> trim(The(orders[k].customer_email)),
                                              locationName |-> StMary])
                ELSE notifications' = notifications
     /\ notifications' # notifications
          => \E k \in DOMAIN orders :
               /\ EmailSupplied(orders[k])
               /\ orders'[k].status = "ready"
               /\ DisplayedStatus(orders[k].id)' = {"ready"}
               /\ notifications' = Append(notifications,
                                          [to |-> trim(The(orders[k].customer_email)),
                                           locationName |-> StMary])
     /\ NotifyCallsInFlight(statusCalls') # NotifyCallsInFlight(statusCalls)
          => \/ /\ notifications' # notifications
                /\ Cardinality(NotifyCallsInFlight(statusCalls')) >= 1
             \/ /\ notifications' = notifications
                /\ orders' = orders
                /\ pageOrders' = pageOrders]_vars

\* both orders were set to ready, the one with an email was notified, the other
\* was not, and every call of setStatus has returned
C12_Witness ==
  /\ \A k \in DOMAIN orders : orders[k].status = "ready"
  /\ \A k \in DOMAIN pageOrders : pageOrders[k].status = "ready"
  /\ notifications = <<[to |-> <<"a", "@", "b">>, locationName |-> StMary]>>
  /\ statusCalls = EmptyBag
  /\ updatingId = NULL

(***************************************************************************)
(* The order form's menu.                                                  *)
(***************************************************************************)
StoredRowOf(itemId) == CHOOSE r \in Range(StoredMenu) : r.id = itemId
Listed(type) == {filteredMenuItems(type)[k].id : k \in DOMAIN filteredMenuItems(type)}
PickupOnly(itemId) == Coalesce(StoredRowOf(itemId).pickup_only, FALSE)
DineInOnly(itemId) == Coalesce(StoredRowOf(itemId).dine_in_only, FALSE)
ExcludedFor(itemId, type) ==
  \/ type = "dine_in" /\ PickupOnly(itemId)
  \/ type = "pickup" /\ DineInOnly(itemId)

\* C14: on the order page, an item of the menu loaded for the event is left
\* out of the list for the selected order type exactly when it is
\* pickup-only and the type is dine_in, or dine-in-only and the type is
\* pickup; an item with neither flag is listed for both types.
C14_AvailabilityFilterExact ==
  \A id \in MenuIds : (id \notin Listed(orderType)) <=> ExcludedFor(id, orderType)

Without(qtys, itemId) == [qtys EXCEPT ![itemId] = 0]

\* C15: the availability filter runs before the totals: an item excluded for
\* the selected order type contributes nothing to the displayed total, to the
\* estimated wait, or to the items handed to placeOrder, even when its
\* selected quantity is positive (the values are those of a form in which
\* its quantity is 0).
C15_ExcludedItemContributesNothing ==
  \A id \in MenuIds :
     ExcludedFor(id, orderType) /\ quantities[id] > 0 =>
       /\ LineTotal(lineItems(orderType, quantities))
            = LineTotal(lineItems(orderType, Without(quantities, id)))
       /\ estimatedWaitMinutes(lineItems(orderType, quantities))
            = estimatedWaitMinutes(lineItems(orderType, Without(quantities, id)))
       /\ SubmittedItems(orderType, quantities)
            = SubmittedItems(orderType, Without(quantities, id))

\* unit prices of the stored menu, in cents
UnitCents ==
  [m1 |-> 1200, m2 |-> 350, m3 |-> 250, m4 |-> 600, m5 |-> 125, m6 |-> 100, m7 |-> 75,
   m8 |-> 150]
Selected(type, qtys) == {id \in Listed(type) : qtys[id] > 0}

RECURSIVE SumCents(_, _)
SumCents(ids, qtys) ==
  IF ids = {} THEN 0
  ELSE LET id == CHOOSE x \in ids : TRUE
       IN UnitCents[id] * qtys[id] + SumCents(ids \ {id}, qtys)

FormCalls == {c \in call : c.caller = "form"}

\* C16: the order total is the sum, over the selected items with a positive
\* quantity, of unit price times quantity, in cents; an item with quantity 0
\* contributes nothing; and the total the form computed for a submitted
\* order is the total placeOrder computes for the confirmation email from
\* the submitted items.
C16_TotalIsSumOfLines ==
  /\ LineTotal(lineItems(orderType, quantities))
       = SumCents(Selected(orderType, quantities), quantities)
  /\ \A id \in MenuIds :
       quantities[id] = 0 =>
         \A k \in DOMAIN lineItems(orderType, quantities) :
            lineItems(orderType, quantities)[k].item.id # id
  /\ \A c \in FormCalls :
       /\ c.closure.total = SumCents({c.items[k].menu_item_id : k \in DOMAIN c.items},
                                     [id \in MenuIds |->
                                        IF \E k \in DOMAIN c.items : c.items[k].menu_item_id = id
                                        THEN (CHOOSE i \in Range(c.items) : i.menu_item_id = id).quantity
                                        ELSE 0])
       /\ ConfirmationCall(c).total = c.closure.total

\* an order of two Fish Plates and one Pie was submitted and its email sent
C16_Witness ==
  /\ quantities = [m1 |-> 2, m2 |-> 1]
  /\ \E c \in FormCalls :
       /\ c.emailResult # NULL
       /\ Len(c.items) = 2
       /\ c.closure.total = 2750
       /\ confirmations # <<>>
       /\ confirmations[Len(confirmations)].total = 2750

PrepOf(itemId) == StoredRowOf(itemId).prep_time_minutes
PositivePreps(ids) ==
  {The(PrepOf(id)) : id \in {x \in ids : PrepOf(x) # NULL /\ The(PrepOf(x)) > 0}}

\* C17: the estimated wait is the largest prep_time_minutes among the
\* selected items (quantity > 0) that have a positive prep time; when no
\* selected item has one, the estimate is absent, never 0.
C17_WaitIsMaxPositivePrep ==
  LET wait == estimatedWaitMinutes(lineItems(orderType, quantities))
      preps == PositivePreps(Selected(orderType, quantities))
  IN /\ wait # Some(0)
     /\ preps = {} => wait = NULL
     /\ preps # {} => /\ wait # NULL
                      /\ The(wait) \in preps
                      /\ \A p \in preps : p <= The(wait)

\* Chowder (20 minutes), Coffee (5) and Tea (0) are selected: the wait is 20
C17_Witness ==
  /\ MenuIds = {"m4", "m5", "m6", "m7"}
  /\ quantities["m4"] > 0 /\ quantities["m5"] > 0 /\ quantities["m6"] > 0
  /\ estimatedWaitMinutes(lineItems(orderType, quantities)) = Some(20)

\* only Tea (0 minutes) and Roll (no prep time) are selected: no estimate
C17_WitnessAbsent ==
  /\ MenuIds = {"m4", "m5", "m6", "m7"}
  /\ quantities = [m4 |-> 0, m5 |-> 0, m6 |-> 1, m7 |-> 1]
  /\ estimatedWaitMinutes(lineItems(orderType, quantities)) = NULL

Offers(ev, type) == IF type = "dine_in" THEN ev.dine_in ELSE ev.pickup

\* C18: the order type with which the order form submits an order is always
\* a mode the event offers; for an event whose dine_in and pickup flags are
\* both false no order is placed.
C18_SubmittedTypeIsOffered ==
  /\ \A c \in FormCalls : Offers(event, c.orderData.order_type)
  /\ \A k \in DOMAIN orders : Offers(event, orders[k].order_type)
  /\ (~event.dine_in /\ ~event.pickup) => orders = <<>>

\* C19: the customer email is optional: a submit of the order form with a
\* non-blank name and a blank email places the order (placeOrder is called,
\* and nothing is reported to the customer) rather than being rejected.
C19_BlankEmailIsAccepted ==
  [][(handleSubmit /\ trim(name) # <<>> /\ trim(email) = <<>>)
       => (call' # NULL /\ submitError' = NULL)]_vars

(***************************************************************************)
(* The menu and the orders placed from it.                                 *)
(***************************************************************************)
RECURSIVE AmountsTotal(_)
AmountsTotal(items) ==
  IF items = <<>> THEN 0
  ELSE Head(items).item_price * Head(items).quantity + AmountsTotal(Tail(items))

\* the line items the admin orders page would load for each order, with the
\* sum of the line amounts it shows
LinesOnOrdersPage ==
  LET loaded == LoadOrders(orders, order_items)
  IN [k \in DOMAIN loaded |->
        [id |-> loaded[k].id, order_items |-> loaded[k].order_items,
         total |-> AmountsTotal(loaded[k].order_items)]]

\* C13: order items are snapshots: no menu-item edit, availability toggle,
\* copy or deletion changes the stored line items of a placed order
\* (item_name, item_price, quantity), nor the line items and the total of
\* the line amounts that the admin orders page loads from them.
C13_OrderItemsAreSnapshots ==
  [][menu_items' # menu_items =>
       /\ order_items' = order_items
       /\ orders' = orders
       /\ LinesOnOrdersPage' = LinesOnOrdersPage]_vars

StoredMenuRows(itemId) == {r \in Range(menu_items) : r.id = itemId}

\* the Fish Plate was edited to $15.00 and made pickup-only after the orders
\* were placed; the orders page, loaded again, shows the $12.00 lines
C13_Witness ==
  /\ \E r \in StoredMenuRows("m1") : getPrice(r) = 1500 /\ r.pickup_only = Some(TRUE)
  /\ \E k \in DOMAIN order_items :
       order_items[k].menu_item_id = "m1" /\ order_items[k].item_price = 1200
  /\ menuCall = NULL
  /\ pageOrders = LoadOrders(orders, order_items)
  /\ LinesOnOrdersPage[2].total = 2750

\* the Pie was deleted from the menu and the Fish Plate is unavailable; the
\* ordered lines are still stored
C13_WitnessDeleted ==
  /\ StoredMenuRows("m2") = {}
  /\ \E r \in StoredMenuRows("m1") : ~r.available
  /\ \E k \in DOMAIN order_items : order_items[k].menu_item_id = "m2"

\* the menu was copied to the second event
C13_WitnessCopied ==
  /\ \E r \in Range(menu_items) : r.event_id = "ev2"
  /\ copyMenuMessage = Some(2)
  /\ order_items = PlacedItems

(***************************************************************************)
(* Duplicating an event.                                                   *)
(***************************************************************************)
NewRows(before, after) == SubSeq(after, Len(before) + 1, Len(after))
RowsOfEvent(eventId) == SelectSeq(menu_items, LAMBDA r : r.event_id = eventId)
StoredEventRow(eventId) == CHOOSE e \in Range(event_rows) : e.id = eventId

\* the step of handleDuplicateEventSubmit that inserts the new event
DuplicateInsertedEvent == duplicateCall = NULL /\ event_rows' # event_rows
\* the step that inserts the copies of the menu items
DuplicateInsertedItems ==
  /\ \E c \in duplicateCall : c.pc = "selectMenu"
  /\ \E c \in duplicateCall' : c.pc = "insertItems"
  /\ menu_items' # menu_items

\* the rows of the source event that the handler selected
SelectedSourceRows(c) ==
  SubSeq(RowsOfEvent(c.source.id), 1, Len(The(c.sourceMenuItems)))

NewEventHasSourceFields ==
  DuplicateInsertedEvent =>
    LET source == StoredEventRow(The(duplicateSourceEvent).id)
        created == event_rows'[Len(event_rows')]
    IN /\ Len(event_rows') = Len(event_rows) + 1
       /\ created.id \notin {event_rows[k].id : k \in DOMAIN event_rows}
       /\ [created EXCEPT !.id = source.id]
            = [source EXCEPT !.event_date = duplicateEventDate, !.active = TRUE]

\* C20: duplicating an event creates a new event with the source event's
\* fields on the chosen date, and copies every menu item of the source event
\* to it with name, description, price, category, available, prep time,
\* dietary tags and the dine-in-only and pickup-only flags unchanged: the rows
\* inserted are the rows the copy-menu operation inserts for the same items.
C20_DuplicateCopiesAsCopyMenu ==
  [][/\ NewEventHasSourceFields
     /\ DuplicateInsertedItems =>
          LET c == The(duplicateCall) IN
          NewRows(menu_items, menu_items')
            = CopyMenuRows(MenuItemRows(SelectedSourceRows(c)),
                           The(c.createdEvent).id, menuIdsIssued)]_vars

\* the part of C20 that leaves the two flags aside
C20_DuplicateCopiesAllButFlags ==
  [][/\ NewEventHasSourceFields
     /\ DuplicateInsertedItems =>
          LET c == The(duplicateCall)
              expected == CopyMenuRows(MenuItemRows(SelectedSourceRows(c)),
                                       The(c.createdEvent).id, menuIdsIssued)
          IN NewRows(menu_items, menu_items')
               = [k \in DOMAIN expected |->
                    [expected[k] EXCEPT !.dine_in_only = Some(FALSE),
                                        !.pickup_only = Some(FALSE)]]]_vars

\* the first event was duplicated: the pickup-only Pie has a copy in the new
\* event
C20_DuplicatedWithMenu ==
  /\ duplicateEventMessage = Some(EventDuplicated)
  /\ \E r \in Range(menu_items) : r.event_id = "ev3" /\ r.name = "Pie"

\* the copy of the menu items failed for the running duplication: the select
\* returned no data, or the insert left the new event without items
DuplicateCopyFailed(c) ==
  /\ c.createdEvent # NULL
  /\ \/ c.pc = "selectMenu" /\ c.sourceMenuItems = NULL
     \/ c.pc = "insertItems" /\ RowsOfEvent(The(c.createdEvent).id) = <<>>

\* C21: event duplication is not atomic: when the new event was inserted and
\* the read or the insert of the copied menu items then failed, the handler
\* ends with the new event still stored, without menu items, and reports an
\* error to the admin, not a successful duplication.
C21_PartialDuplicateReportsError ==
  [][\A c \in duplicateCall :
        (DuplicateCopyFailed(c) /\ duplicateCall' = NULL) =>
          /\ \E e \in Range(event_rows') : e.id = The(c.createdEvent).id
          /\ \A r \in Range(menu_items') : r.event_id # The(c.createdEvent).id
          /\ duplicateEventError' # NULL
          /\ duplicateEventMessage' # Some(EventDuplicated)]_vars

\* the part of C21 about the stored state alone
C21_PartialDuplicateKeepsEvent ==
  [][\A c \in duplicateCall :
        (DuplicateCopyFailed(c) /\ duplicateCall' = NULL) =>
          /\ \E e \in Range(event_rows') : e.id = The(c.createdEvent).id
          /\ \A r \in Range(menu_items') : r.event_id # The(c.createdEvent).id]_vars

(***************************************************************************)
(* Claims about lib/geo.ts.                                                *)
(***************************************************************************)
\* the ways of writing one city name that normalisation is to identify
NameFamilies ==
  {WordForms(k) : k \in DOMAIN replacements}
    \cup {{StLouisTyped, SaintLouisTyped, AbbrevForm(1)}}

\* the same without the forms that carry a period
PlainFamilies ==
  {{AbbrevForm(k), FullWordForm(k)} : k \in DOMAIN replacements}
    \cup {{SaintLouisTyped, AbbrevForm(1)}}

\* C22: normalizeCityName maps "St. Louis", "Saint Louis" and "st louis" to one
\* string, and a whole-word abbreviation, written with or without its period
\* (st, ft, mt, n, s, e, w), to the same string as the full word.
C22_AbbreviationsNormalizeAlike ==
  \A F \in NameFamilies :
    (nameA \in F /\ nameB \in F /\ normA # NULL /\ normB # NULL) => normA = normB

\* the part of C22 about the abbreviations written without a period
C22_PlainAbbreviationsNormalizeAlike ==
  \A F \in PlainFamilies :
    (nameA \in F /\ nameB \in F /\ normA # NULL /\ normB # NULL) => normA = normB

C22_PlainNormalized ==
  /\ nameA = AbbrevForm(1) /\ nameB = SaintLouisTyped
  /\ normA = Some(<<"s","a","i","n","t">> \o Space \o Louis) /\ normB = normA

\* x occurs in y as a run of consecutive characters
IsSubstring(x, y) ==
  \E i \in 0..(Len(y) - Len(x)) : \A j \in 1..Len(x) : y[i + j] = x[j]

\* what citiesMatch is to return for the two names
MatchExpected(a, b) ==
  LET na == normalizeCityName(a)
      nb == normalizeCityName(b)
  IN /\ na # <<>>
     /\ nb # <<>>
     /\ IsSubstring(na, nb) \/ IsSubstring(nb, na)

\* C23: citiesMatch is false when either argument normalizes to the empty
\* string and otherwise true exactly when one normalized name is a substring of
\* the other; it is symmetric in its arguments; "Saint Louis" matches "Louis" and
\* "Kansas City" does not match "Jefferson City".
C23_CitiesMatchIsSubstringEitherWay ==
  /\ matchAB # NULL => The(matchAB) = MatchExpected(nameA, nameB)
  /\ matchBA # NULL => The(matchBA) = MatchExpected(nameB, nameA)
  /\ (matchAB # NULL /\ matchBA # NULL) => matchAB = matchBA
  /\ (matchAB # NULL /\ nameA = SaintLouisTyped /\ nameB = LouisTyped) => The(matchAB)
  /\ (matchAB # NULL /\ nameA = LouisTyped /\ nameB = SaintLouisTyped) => The(matchAB)
  /\ (matchAB # NULL /\ nameA = KansasCity /\ nameB = JeffersonCity) => ~The(matchAB)
  /\ (matchAB # NULL /\ (nameA \in {<<>>, Space} \/ nameB \in {<<>>, Space})) => ~The(matchAB)

C23_ShorterNameFirst ==
  /\ nameA = LouisTyped /\ nameB = SaintLouisTyped
  /\ matchAB = Some(TRUE) /\ matchBA = Some(TRUE)

C23_BlankName ==
  /\ nameA = Space /\ nameB = KansasCity
  /\ matchAB = Some(FALSE) /\ matchBA = Some(FALSE)

\* C25: haversineMiles is symmetric in its two points, and the distance from a
\* point to itself is 0.
C25_HaversineSymmetricAndZeroOnSelf ==
  /\ (milesPQ # NULL /\ milesQP # NULL) => milesPQ = milesQP
  /\ milesPP # NULL => milesPP = Some(0)
  /\ (milesPQ # NULL /\ pointP = pointQ) => milesPQ = Some(0)

C25_DistinctPointsBothWays ==
  /\ pointP.lat # pointQ.lat /\ pointP.lng # pointQ.lng
  /\ milesPQ # NULL /\ milesPQ = milesQP /\ The(milesPQ) > 0
  /\ milesPP = Some(0)

\* the lookups of the call that succeeded: a body came back for the state asked
LookupSucceeded(c, i) ==
  /\ c.responses[i] # NULL
  /\ The(c.responses[i]).kind = "ok"
  /\ toUpperCase(Coalesce(The(c.responses[i]).state, c.stateAbbr)) = c.stateUpper

LookupFailed(c, i) == c.responses[i] # NULL /\ ~LookupSucceeded(c, i)

\* the hardcoded cities of the state that match what was typed
HardcodedMatches(c) ==
  {h \in Range(MAJOR_MO_IL_CITIES) :
     h.stateAbbr = c.stateUpper /\ MatchExpected(h.city, c.partial)}

\* the matching cities the succeeded lookups returned
ReturnedMatches(c) ==
  {Suggestion(trim(n), c.stateUpper) :
     n \in {m \in UNION {Range(The(c.responses[i]).places) :
                           i \in {j \in DOMAIN c.variations : LookupSucceeded(c, j)}} :
              trim(m) # <<>> /\ MatchExpected(trim(m), c.partial)}}

\* C24: fetchCitySuggestions starts one lookup per search variation, all
\* together, and aggregates once all of them have settled; whichever of them
\* fail (network error, non-success status, answer for another state), the call
\* returns every hardcoded match and every matching city of the lookups that
\* succeeded, each city once whatever its letter case, and nothing else.
C24_FailedLookupsAreIsolated ==
  \A c \in suggestCall :
    /\ DOMAIN c.apiResults = DOMAIN c.variations
    /\ c.pc = "awaitAll" => suggestResult = NULL
    /\ c.pc = "returned" =>
         /\ \A i \in DOMAIN c.variations : c.responses[i] # NULL
         /\ suggestResult # NULL
         /\ HardcodedMatches(c) \subseteq Range(The(suggestResult))
         /\ {SuggestionKey(r) : r \in Range(The(suggestResult))}
              = {SuggestionKey(r) : r \in HardcodedMatches(c) \cup ReturnedMatches(c)}

\* two lookups are in flight together
C24_LookupsInFlightTogether ==
  \E c \in suggestCall :
    /\ c.pc = "awaitAll" /\ Len(c.variations) = 2
    /\ \A i \in DOMAIN c.variations : c.responses[i] = NULL

\* one lookup failed, the other succeeded and brought a city that is not
\* hardcoded; the call has returned it with the hardcoded matches
C24_OneFailedOneSucceeded ==
  \E c \in suggestCall :
    /\ c.pc = "returned"
    /\ \E i, j \in DOMAIN c.variations : LookupFailed(c, i) /\ LookupSucceeded(c, j)
    /\ HardcodedMatches(c) # {}
    /\ ReturnedMatches(c) \ HardcodedMatches(c) # {}
    /\ Len(The(suggestResult)) = 3

\* what the lookup for the inputs as they are now can give: null when it fails
\* or none is made, else the service's answer
CurrentLookupOutcomes ==
  LET zipTrimmed  == ZipTrimmed(zipQuery)
      cityTrimmed == CityTrimmed(cityQuery)
      branch      == OriginBranch(events, zipTrimmed, cityTrimmed)
  IN IF branch = "zip" THEN {NULL, fetchZipCoords(zipTrimmed, TRUE)}
     ELSE IF branch = "city"
          THEN {NULL, fetchCityCoords(ParsedCity(cityTrimmed), StateFor(events, cityTrimmed), TRUE)}
          ELSE {NULL}

\* C26: origin resolution reflects the latest query: with no debounce timer
\* pending and no lookup in flight, the origin used for sorting and filtering is
\* the result of the lookup for the current zip/city input (null when it failed),
\* in whatever order the responses of earlier and later lookups arrived.
C26_OriginReflectsLatestQuery ==
  (timer = NULL /\ inflight = EmptyBag) => originCoords \in CurrentLookupOutcomes

\* The part of C26 about a lookup that is still current when it settles: the
\* origin becomes its result.
C26_CurrentLookupSetsOrigin ==
  [][\A req \in DOMAIN inflight :
        (inflight' = BagRemove(inflight, req)
           /\ req.zipQuery = zipQuery /\ req.cityQuery = cityQuery)
        => originCoords' \in CurrentLookupOutcomes]_vars


\* the city lookup's response arrived after the response of the later
\* postal-code lookup, and its result is the origin
C26_EarlierResponseLast ==
  /\ cityQuery = TroyIL /\ zipQuery = Zip63101
  /\ timer = NULL /\ inflight = EmptyBag
  /\ originCoords = Some(Origin2)

\* the inputs as the effect's closures hold them
CurrentInputs == [state |-> signupState, city |-> signupCity]

\* C27: in the signup form's city autocomplete a response is applied only when
\* the state and city inputs have not changed since its lookup was scheduled, so
\* the displayed suggestions never come from a query other than the current
\* inputs, and there are none while the state or the city has fewer than 2
\* characters.
C27_SuggestionsAreForCurrentInputs ==
  /\ (showCitySuggestions /\ citySuggestions # <<>>) => suggestionsQuery = Some(CurrentInputs)
  /\ (Len(signupState) < 2 \/ Len(signupCity) < 2) => citySuggestions = <<>>

\* The part of C27 about the responses: one that changes the suggestions was
\* scheduled for the inputs as they are, and one whose inputs were edited since
\* changes nothing.
C27_SupersededResponseDiscarded ==
  [][\A f \in suggestFetches :
        (suggestFetches' = suggestFetches \ {f} /\ UNCHANGED <<signupState, signupCity>>) =>
          /\ f.cancelled => UNCHANGED <<citySuggestions, suggestionsQuery>>
          /\ [state |-> f.state, city |-> f.city] # CurrentInputs => f.cancelled
          /\ ~f.cancelled => suggestionsQuery' = Some(CurrentInputs)]_vars

\* The part of C27 about short inputs.
C27_ShortInputsEmpty ==
  (Len(trim(signupState)) < 2 \/ Len(trim(signupCity)) < 2) =>
    (citySuggestions = <<>> /\ suggestTimer = NULL)

\* a superseded lookup is in flight together with the current one
C27_SupersededInFlight ==
  \E f, g \in suggestFetches : f.cancelled /\ ~g.cancelled /\ f.city # g.city

(***************************************************************************)
(* Claims about setStatus on the admin orders page.                        *)
(***************************************************************************)
\* the call of setStatus whose update settles in the step
UpdateSettlesFor(c) ==
  /\ c \in DOMAIN statusCalls
  /\ c.pc = "update"
  /\ statusCalls' # statusCalls
  /\ \A d \in DOMAIN statusCalls \ {c} : d \in DOMAIN statusCalls' /\ statusCalls'[d] >= statusCalls[d]
  /\ c \in DOMAIN statusCalls' => statusCalls'[c] < statusCalls[c]

\* C28: when the update of the orders row fails, setStatus leaves the displayed
\* status of the order as it was and sends no ready notification, whatever
\* status was requested; and no call of setStatus changes the displayed status
\* of an order other than its own.
C28_FailedUpdateChangesNothing ==
  [][ /\ consoleErrors' # consoleErrors =>
           (pageOrders' = pageOrders /\ notifications' = notifications)
      /\ DOMAIN pageOrders' = DOMAIN pageOrders
      /\ \A k \in DOMAIN pageOrders :
           pageOrders'[k] # pageOrders[k] =>
             \E c \in DOMAIN statusCalls :
               /\ UpdateSettlesFor(c)
               /\ c.orderId = pageOrders[k].id
               /\ pageOrders'[k] = [pageOrders[k] EXCEPT !.status = c.newStatus]
    ]_vars

\* an update has failed and one for the order without an email has succeeded:
\* the other order shows its old status, no notification was sent
C28_FailedAndSucceeded ==
  /\ consoleErrors = 1 /\ statusCalls = EmptyBag
  /\ \A k \in DOMAIN pageOrders :
       pageOrders[k].status = IF HasCustomerEmail(pageOrders[k]) THEN "pending" ELSE "ready"
  /\ \E k \in DOMAIN pageOrders : pageOrders[k].status = "ready"
  /\ notifications = <<>>

\* the buttons of an order are disabled
ButtonsDisabled(orderId) == updatingId = Some(orderId)

\* C29: while a status update for an order is in flight, the buttons of that
\* order stay disabled until the update and its notification have completed,
\* whatever updates for other orders start or finish meanwhile; so no two
\* updates for the same order are in flight together.
C29_OrderInFlightStaysDisabled ==
  /\ \A c \in DOMAIN statusCalls : ButtonsDisabled(c.orderId)
  /\ \A c, d \in DOMAIN statusCalls : c.orderId = d.orderId => (c = d /\ statusCalls[c] = 1)

\* The part of C29 about one order alone: a click is possible only on enabled
\* buttons and disables them.
C29_ClickDisables ==
  [][\A c \in DOMAIN statusCalls' :
        (c.pc = "update" /\ (c \notin DOMAIN statusCalls \/ statusCalls'[c] > statusCalls[c])) =>
          (~ButtonsDisabled(c.orderId) /\ ButtonsDisabled(c.orderId)')]_vars

\* two updates for order 1 are in flight
C29_TwoUpdatesOfOneOrder ==
  /\ BagSize(statusCalls) = 2
  /\ \A c \in DOMAIN statusCalls : c.orderId = PlacedOrders[1].id

====
